---- MODULE Spec2Model ----
(***************************************************************************)
(* Model of the stream recorder: the per-channel streaming worker of       *)
(* audio_recorder.py (AudioRecorder) with its start/stop control and       *)
(* failure/backoff bookkeeping, and the frame-level boundary detector of   *)
(* archive/old_files/audio_processor.py (AudioProcessor.process_frame).    *)
(***************************************************************************)
EXTENDS Integers, Sequences, FiniteSets, TLC

(***************************************************************************)
(* Bounds of the model.                                                    *)
(***************************************************************************)
\* thread objects that can exist at once for one channel
MaxThreads == 2
\* cap on the consecutive-failure counter of a channel
MaxFailures == 1
\* the same cap where a single worker runs and the backoff delays are studied
MaxBackoffFailures == 11
\* distinct values of the time.time() stamp kept in channel_last_success
MaxStamp == 2

(***************************************************************************)
(* Program constants of AudioRecorder.                                     *)
(***************************************************************************)
max_consecutive_failures == 5

\* channel ids of the loaded configuration
ChannelIds == {"c1", "c2"}
\* a channel id that is not in the configuration
UnknownId == "zz"

Slots == 1..MaxThreads
Threads == ChannelIds \X Slots

Min(a, b) == IF a < b THEN a ELSE b
Max(a, b) == IF a > b THEN a ELSE b

RECURSIVE Pow2(_)
Pow2(n) == IF n = 0 THEN 1 ELSE 2 * Pow2(n - 1)

VARIABLES
    channels,              \* self.channels: channel id -> [enabled]
    is_recording,          \* self.is_recording: dict channel id -> bool
    recording_threads,     \* self.recording_threads: dict channel id -> thread
    channel_failures,      \* self.channel_failures: dict channel id -> int
    channel_last_success,  \* self.channel_last_success: dict channel id -> stamp
    pc,                    \* position of every worker thread in stream_recorder
    sleep_left,            \* seconds that remain of time.sleep(wait_time)
    temp_file,             \* whether the worker's temp capture file exists
    stop_pending,          \* channel ids stop_recording has still to join
    join_target,           \* thread the running stop_recording is joining
    pending_count,         \* a worker's `.get(channel_id, 0) + 1`, not yet stored
    status,                \* what the last get_status call returned
    \* AudioProcessor (one detector instance)
    vad,                   \* the channel's vad settings the detector was built with
    hang_time_frames,      \* self.hang_time_frames
    preroll_buffer,        \* self.preroll_buffer, frames oldest first
    current_transmission,  \* self.current_transmission: None or the accumulator
    speech_frame_count,    \* self.speech_frame_count
    silence_frame_count,   \* self.silence_frame_count
    is_in_transmission,    \* self.is_in_transmission
    metrics,               \* the outcome counters of self.metrics
    returned,              \* what the last process_frame call returned
    frames_fed,            \* number of process_frame calls so far
    tail_speech,           \* length of the run of speech frames just fed
    tail_silence,          \* length of the run of non-speech frames just fed
    pattern,               \* shape of the input so far (see ProcessFrame)
    \* VadAutoTuner (one tuner instance and its configuration file)
    tuner_config,          \* the file at config_path: channel name -> settings
    adjustment_history,    \* self.adjustment_history: name -> list of times
    clock,                 \* time.time(), in ticks of SecondsPerTick
    tuner_call,            \* the last apply_auto_adjustments call: arguments,
                           \* metrics window, whether it ran the analysis, result
    channel_metrics,       \* the rows of the collector's table channel_metrics:
                           \* row -> how many of it
    \* process_complete_segment (one call at a time, of one worker)
    seg_pc,                \* position of the call: "idle", "spans", "done"
    seg_file,              \* the captured file: its condition and its audio
    source_exists,         \* whether the captured temp file is on disk
    merged_ranges,         \* merged_ranges: list of (start_ms, end_ms)
    span_index,            \* ranges of merged_ranges the for loop has handled
    saved_count,           \* saved_count
    filtered_count,        \* filtered_count
    outcomes,              \* per handled range: the range and how it ended
    segments_done,         \* calls of process_complete_segment that returned
    \* the detector with update_vad_parameters called on another thread
    classifying,           \* the frame of the simple_vad call that is running
    vad_read,              \* the thresholds that call has read, in order
    update_left,           \* writes the running update_vad_parameters has to do
    snapshots              \* the threshold sets the detector was given

recVars == <<channels, is_recording, recording_threads, channel_failures,
             channel_last_success, pc, sleep_left, temp_file, stop_pending,
             join_target, pending_count, status>>

detVars == <<vad, hang_time_frames, preroll_buffer, current_transmission,
             speech_frame_count, silence_frame_count, is_in_transmission,
             metrics, returned, frames_fed, tail_speech, tail_silence,
             pattern>>

tunVars ==
    <<tuner_config, adjustment_history, clock, tuner_call, channel_metrics>>

segVars == <<seg_pc, seg_file, source_exists, merged_ranges, span_index,
             saved_count, filtered_count, outcomes, segments_done>>

raceVars == <<classifying, vad_read, update_left, snapshots>>

vars == <<recVars, detVars, tunVars, segVars, raceVars>>

(***************************************************************************)
(* Python dict helpers: d.get(k, default), d[k] = v, del d[k].             *)
(***************************************************************************)
Get(d, k, default) == IF k \in DOMAIN d THEN d[k] ELSE default
Put(d, k, v) == [x \in DOMAIN d \cup {k} |-> IF x = k THEN v ELSE d[x]]
Del(d, k) == [x \in DOMAIN d \ {k} |-> d[x]]
EmptyDict == [x \in {} |-> 0]

IsRec(c) == Get(is_recording, c, FALSE)
Failures(c) == Get(channel_failures, c, 0)

NoThread == <<"none", 0>>
Alive(t) == pc[t] # "stopped"
\* positions where a worker can stay for longer than the join timeout
Blocking == {"connecting", "streaming", "processing", "backoff"}

ChannelOf(t) == t[1]

\* the threads of channel c that are running
LiveWorkers(c) == { i \in Slots : Alive(<<c, i>>) }

(***************************************************************************)
(* Backoff delays of stream_recorder.                                      *)
(***************************************************************************)
\* RequestBackoff with the threshold test written > instead of >=
RequestBackoff_gt(failure_count) ==
    IF failure_count > max_consecutive_failures
    THEN Min(300, 30 * Pow2(Min(failure_count - max_consecutive_failures, 4)))
    ELSE Min(60, 5 * failure_count)

\* wait_time of the RequestException branch
RequestBackoff(failure_count) ==
    IF failure_count >= max_consecutive_failures
    THEN Min(300, 30 * Pow2(Min(failure_count - max_consecutive_failures, 4)))
    ELSE Min(60, 5 * failure_count)

\* wait_time of the generic Exception branch
UnexpectedBackoff(failure_count) == Min(60, 5 * failure_count)

(***************************************************************************)
(* State after AudioRecorder.__init__: the configuration is loaded, no     *)
(* channel records, every dict is empty.                                   *)
(***************************************************************************)
\* a configuration file with the single channel c1
OneChannel == [c \in {"c1"} |-> [enabled |-> TRUE]]

RecInit(config) ==
    /\ channels = config
    /\ is_recording = EmptyDict
    /\ recording_threads = EmptyDict
    /\ channel_failures = EmptyDict
    /\ channel_last_success = EmptyDict
    /\ pc = [t \in Threads |-> "stopped"]
    /\ sleep_left = [t \in Threads |-> 0]
    /\ temp_file = [t \in Threads |-> FALSE]
    /\ stop_pending = {}
    /\ join_target = NoThread
    /\ pending_count = [t \in Threads |-> 0]
    /\ status = EmptyDict

(***************************************************************************)
(* start_recording / stop_recording.                                       *)
(***************************************************************************)
\* no stop_recording call is in progress
StopIdle == stop_pending = {} /\ join_target = NoThread

\* a thread object that is finished and that nothing refers to any more
FreeSlots(c) ==
    { i \in Slots : /\ pc[<<c, i>>] = "stopped"
                    /\ Get(recording_threads, c, 0) # i
                    /\ join_target # <<c, i>> }

NewSlot(c) == CHOOSE i \in FreeSlots(c) : \A j \in FreeSlots(c) : i <= j

EnabledChannels == { c \in DOMAIN channels : channels[c].enabled }

\* ToStart that does not look at the recording flag
ToStart_again(channel_ids) == { c \in channel_ids : c \in DOMAIN channels }

\* the channels for which start_recording(channel_ids) creates a worker
ToStart(channel_ids) ==
    { c \in channel_ids : c \in DOMAIN channels /\ ~IsRec(c) }

StartArgs == SUBSET (DOMAIN channels \cup {UnknownId})

\* (control calls are made one at a time: no call while stop_recording runs)
start_recording(channel_ids) ==
    LET started == ToStart(channel_ids)
    IN /\ StopIdle
       /\ \A c \in started : FreeSlots(c) # {}
       /\ is_recording' =
            [c \in DOMAIN is_recording \cup started |->
                IF c \in started THEN TRUE ELSE is_recording[c]]
       /\ recording_threads' =
            [c \in DOMAIN recording_threads \cup started |->
                IF c \in started THEN NewSlot(c) ELSE recording_threads[c]]
       /\ pc' = [t \in Threads |->
                   IF t[1] \in started /\ t[2] = NewSlot(t[1])
                   THEN "loop" ELSE pc[t]]
       /\ UNCHANGED <<detVars, tunVars, segVars, raceVars>>
       /\ UNCHANGED <<pending_count, status>>
       /\ UNCHANGED <<channels, channel_failures, channel_last_success,
                      sleep_left, temp_file,
                      stop_pending, join_target>>

\* ClearsFlag that takes every channel for a stopped one
ClearsFlag_all(c, channel_ids) == TRUE

\* whether the first loop of stop_recording(channel_ids) clears the flag of c
ClearsFlag(c, channel_ids) == c \in channel_ids

\* stop_recording, first loop: clear the flags; the joins follow (an id that
\* is not configured never has a thread, the second loop skips it)
stop_recording(channel_ids) ==
       /\ StopIdle
       /\ is_recording' =
            [c \in DOMAIN is_recording |->
                IF ClearsFlag(c, channel_ids) THEN FALSE ELSE is_recording[c]]
       /\ stop_pending' = channel_ids \cap DOMAIN channels
       /\ UNCHANGED <<detVars, tunVars, segVars, raceVars>>
       /\ UNCHANGED <<pending_count, status>>
       /\ UNCHANGED <<channels, recording_threads, channel_failures,
                      channel_last_success, pc, sleep_left,
                      temp_file, join_target>>

\* channel_ids is None: every enabled channel / every key of is_recording
start_recording_all == start_recording(EnabledChannels)
stop_recording_all == stop_recording(DOMAIN is_recording)

\* stop_recording, second loop: enter join(timeout=5) on the channel's thread
JoinBegin(c) ==
    /\ c \in stop_pending
    /\ join_target = NoThread
    /\ stop_pending' = stop_pending \ {c}
    /\ join_target' = IF c \in DOMAIN recording_threads
                      THEN <<c, recording_threads[c]>> ELSE NoThread
    /\ UNCHANGED <<detVars, tunVars, segVars, raceVars>>
    /\ UNCHANGED <<pending_count, status>>
    /\ UNCHANGED <<channels, is_recording, recording_threads,
                   channel_failures, channel_last_success, pc, sleep_left, temp_file>>

\* join returns, the thread finished or the 5 s timeout expired on a worker
\* that is blocked; then del self.recording_threads[channel_id]
JoinEnd ==
    /\ join_target # NoThread
    /\ ~Alive(join_target) \/ pc[join_target] \in Blocking
    /\ recording_threads' = Del(recording_threads, join_target[1])
    /\ join_target' = NoThread
    /\ UNCHANGED <<detVars, tunVars, segVars, raceVars>>
    /\ UNCHANGED <<pending_count, status>>
    /\ UNCHANGED <<channels, is_recording, channel_failures,
                   channel_last_success, pc, sleep_left,
                   temp_file, stop_pending>>

(***************************************************************************)
(* stream_recorder: one loop iteration is connect, stream the capture      *)
(* window into the temp file, process the segment; the except branches     *)
(* count the failure and sleep; the finally clause unlinks the temp file.  *)
(***************************************************************************)
\* LoopCondition that does not look at the flag
LoopCondition_ignored(recording) == TRUE

\* the condition of `while self.is_recording.get(channel_id, False)`
LoopCondition(recording) == recording

LoopCheck(t) ==
    /\ pc[t] = "loop"
    /\ pc' = [pc EXCEPT ![t] = IF LoopCondition(IsRec(ChannelOf(t)))
                                THEN "connecting" ELSE "stopped"]
    /\ UNCHANGED <<detVars, tunVars, segVars, raceVars>>
    /\ UNCHANGED <<pending_count, status>>
    /\ UNCHANGED <<channels, is_recording, recording_threads,
                   channel_failures, channel_last_success, sleep_left,
                   temp_file, stop_pending, join_target>>

\* requests.get and raise_for_status succeed, the temp file is opened
Connect(t) ==
    /\ pc[t] = "connecting"
    /\ pc' = [pc EXCEPT ![t] = "streaming"]
    /\ temp_file' = [temp_file EXCEPT ![t] = TRUE]
    /\ UNCHANGED <<detVars, tunVars, segVars, raceVars>>
    /\ UNCHANGED <<pending_count, status>>
    /\ UNCHANGED <<channels, is_recording, recording_threads,
                   channel_failures, channel_last_success, sleep_left, stop_pending, join_target>>

\* Finally that leaves the file where it is
Finally_kept(t) == temp_file

\* the finally clause: unlink the temp file if it exists
Finally(t) == [temp_file EXCEPT ![t] = FALSE]

\* an exception reaches one of the two except clauses; both begin with
\* `self.channel_failures[channel_id] = self.channel_failures.get(channel_id,
\* 0) + 1`, of which this is the evaluation of the right-hand side: nothing
\* holds a lock, the store is a later step of the thread
FailureCaught(t, cap) ==
    LET c == ChannelOf(t)
    IN /\ pc[t] \in {"connecting", "streaming"}
       /\ Failures(c) < cap
       /\ pending_count' = [pending_count EXCEPT ![t] = Failures(c) + 1]
       /\ pc' = [pc EXCEPT ![t] = "failed"]
       /\ UNCHANGED <<detVars, tunVars, segVars, raceVars>>
       /\ UNCHANGED <<channels, is_recording, recording_threads,
                      channel_failures, channel_last_success, sleep_left,
                      temp_file, stop_pending, join_target, status>>

\* except requests.exceptions.RequestException (connect or read failure):
\* the store, wait_time, and the sleep that is taken only
\* `if self.is_recording.get(channel_id, False)`
RequestFailure(t) ==
    LET c == ChannelOf(t)
        failure_count == pending_count[t]
    IN /\ pc[t] = "failed"
       /\ channel_failures' = Put(channel_failures, c, failure_count)
       /\ pending_count' = [pending_count EXCEPT ![t] = 0]
       /\ IF IsRec(c)
          THEN /\ pc' = [pc EXCEPT ![t] = "backoff"]
               /\ sleep_left' =
                    [sleep_left EXCEPT ![t] = RequestBackoff(failure_count)]
               /\ UNCHANGED temp_file
          ELSE /\ pc' = [pc EXCEPT ![t] = "loop"]
               /\ temp_file' = Finally(t)
               /\ UNCHANGED sleep_left
       /\ UNCHANGED <<detVars, tunVars, segVars, raceVars>>
       /\ UNCHANGED <<channels, is_recording, recording_threads,
                      channel_last_success, stop_pending, join_target, status>>

\* except Exception: the store, wait_time, and the sleep, which is taken
\* whatever the recording flag says
UnexpectedFailure(t) ==
    LET c == ChannelOf(t)
        failure_count == pending_count[t]
    IN /\ pc[t] = "failed"
       /\ channel_failures' = Put(channel_failures, c, failure_count)
       /\ pending_count' = [pending_count EXCEPT ![t] = 0]
       /\ pc' = [pc EXCEPT ![t] = "backoff"]
       /\ sleep_left' =
            [sleep_left EXCEPT ![t] = UnexpectedBackoff(failure_count)]
       /\ UNCHANGED <<detVars, tunVars, segVars, raceVars>>
       /\ UNCHANGED <<channels, is_recording, recording_threads,
                      channel_last_success, temp_file, stop_pending,
                      join_target, status>>

\* what one turn of `for chunk in response.iter_content(...)` does next:
\* break on a cleared flag, else write and break once the window has elapsed
AfterChunk(recording, elapsed) ==
    IF ~recording THEN "processing"
    ELSE IF elapsed THEN "processing" ELSE "streaming"

StreamChunk(t, elapsed) ==
    /\ pc[t] = "streaming"
    /\ pc' = [pc EXCEPT ![t] = AfterChunk(IsRec(ChannelOf(t)), elapsed)]
    /\ UNCHANGED <<detVars, tunVars, segVars, raceVars>>
    /\ UNCHANGED <<pending_count, status>>
    /\ UNCHANGED <<channels, is_recording, recording_threads,
                   channel_failures, channel_last_success, sleep_left,
                   temp_file, stop_pending, join_target>>

\* the response body ends: the for loop is left without a break
StreamEnd(t) ==
    /\ pc[t] = "streaming"
    /\ pc' = [pc EXCEPT ![t] = "processing"]
    /\ UNCHANGED <<detVars, tunVars, segVars, raceVars>>
    /\ UNCHANGED <<pending_count, status>>
    /\ UNCHANGED <<channels, is_recording, recording_threads,
                   channel_failures, channel_last_success, sleep_left,
                   temp_file, stop_pending, join_target>>

\* time.time(): a stamp that differs from the one stored before
NextStamp(c) == (Get(channel_last_success, c, 0) % MaxStamp) + 1

\* the statements after the call of process_complete_segment: the counters
\* are reset, then finally
AfterProcessing(t) ==
    LET c == ChannelOf(t)
    IN /\ pc[t] = "processing"
       /\ channel_failures' = Put(channel_failures, c, 0)
       /\ channel_last_success' = Put(channel_last_success, c, NextStamp(c))
       /\ temp_file' = Finally(t)
       /\ pc' = [pc EXCEPT ![t] = "loop"]
       /\ UNCHANGED <<pending_count, status>>
       /\ UNCHANGED <<channels, is_recording, recording_threads, sleep_left, stop_pending, join_target>>

\* process_complete_segment returns, the counters are reset, then finally
ProcessSegment(t) ==
    /\ AfterProcessing(t)
    /\ UNCHANGED <<detVars, tunVars, segVars, raceVars>>

\* the delay of time.sleep(wait_time) has passed
SleepElapse(t) ==
    /\ pc[t] = "backoff"
    /\ sleep_left[t] > 0
    /\ sleep_left' = [sleep_left EXCEPT ![t] = 0]
    /\ UNCHANGED <<detVars, tunVars, segVars, raceVars>>
    /\ UNCHANGED <<pending_count, status>>
    /\ UNCHANGED <<channels, is_recording, recording_threads,
                   channel_failures, channel_last_success, pc, temp_file, stop_pending, join_target>>

\* whether time.sleep(wait_time) can return: only once the delay has passed
SleepOver(left, recording) == left = 0

\* time.sleep returns; finally; back to the loop condition
SleepReturn(t) ==
    /\ pc[t] = "backoff"
    /\ SleepOver(sleep_left[t], IsRec(ChannelOf(t)))
    /\ pc' = [pc EXCEPT ![t] = "loop"]
    /\ sleep_left' = [sleep_left EXCEPT ![t] = 0]
    /\ temp_file' = Finally(t)
    /\ UNCHANGED <<detVars, tunVars, segVars, raceVars>>
    /\ UNCHANGED <<pending_count, status>>
    /\ UNCHANGED <<channels, is_recording, recording_threads,
                   channel_failures, channel_last_success,
                   stop_pending, join_target>>

WorkerStep(t, cap) ==
    \/ LoopCheck(t)
    \/ Connect(t)
    \/ FailureCaught(t, cap)
    \/ RequestFailure(t)
    \/ UnexpectedFailure(t)
    \/ \E elapsed \in BOOLEAN : StreamChunk(t, elapsed)
    \/ StreamEnd(t)
    \/ ProcessSegment(t)
    \/ SleepElapse(t)
    \/ SleepReturn(t)

(***************************************************************************)
(* get_status: one entry per configured channel, built from the dicts.     *)
(***************************************************************************)
\* Health that still calls three failures a warning
Health_le(failures) ==
    IF failures = 0 THEN "healthy"
    ELSE IF failures <= 3 THEN "warning"
    ELSE IF failures < max_consecutive_failures THEN "degraded"
    ELSE "failed"

\* "Determine health status"
Health(failures) ==
    IF failures = 0 THEN "healthy"
    ELSE IF failures < 3 THEN "warning"
    ELSE IF failures < max_consecutive_failures THEN "degraded"
    ELSE "failed"

\* the returned dict (last_success None is written 0)
get_status ==
    /\ status' =
         [c \in DOMAIN channels |->
             [ enabled |-> channels[c].enabled,
               recording |-> IsRec(c),
               health |-> Health(Failures(c)),
               consecutive_failures |-> Failures(c),
               last_success |-> Get(channel_last_success, c, 0) ]]
    /\ UNCHANGED <<detVars, tunVars, segVars, raceVars>>
    /\ UNCHANGED <<channels, is_recording, recording_threads,
                   channel_failures, channel_last_success, pc, sleep_left,
                   temp_file, stop_pending, join_target, pending_count>>

(***************************************************************************)
(* process_complete_segment: the captured file is decoded, its non-silent  *)
(* ranges are detected and merged, and every merged range is filtered or   *)
(* extracted with ffmpeg.  The audio of a file is known by its loud runs,  *)
(* a list of (start_ms, end_ms) with silence between them; times are in    *)
(* milliseconds.                                                           *)
(***************************************************************************)
\* the settings of AudioRecorder.__init__ and the literals of the method
min_transmission_length == 800
max_transmission_length == 20000
silence_gap == 600
merge_gap_threshold == 2000
min_file_size == 1024
min_segment_ms == 1000

\* loud runs of one captured file, and captured files of one behaviour
MaxRuns == 2
MaxSegments == 2

\* lengths of a loud run and of the silence that follows it
RunLengths == {500, 1000}
Gaps == {300, 600, 1000, 2000}

\* the audios of n loud runs, the first at 0 and the last at the end
RECURSIVE AudiosOf(_)
AudiosOf(n) ==
    IF n = 1 THEN { << <<0, len>> >> : len \in RunLengths }
    ELSE { Append(a, <<a[Len(a)][2] + g, a[Len(a)][2] + g + len>>) :
              a \in AudiosOf(n - 1), g \in Gaps, len \in RunLengths }

Audios == UNION { AudiosOf(n) : n \in 1..MaxRuns }

\* what is at filepath: nothing, a file under 1 KB, a file that does not
\* decode, an MP3 file
FileConditions == {"missing", "tiny", "corrupt", "good"}

NoFile == [condition |-> "missing", audio |-> <<>>]

\* what running ffmpeg on a range gives: a clip over 1 KB, a non-zero
\* return code, an empty or small clip, an exception in subprocess.run
ExtractionResults == {"ok", "error", "small", "raised"}

SegFresh ==
    /\ seg_pc = "idle"
    /\ seg_file = NoFile
    /\ source_exists = FALSE
    /\ merged_ranges = <<>>
    /\ span_index = 0
    /\ saved_count = 0
    /\ filtered_count = 0
    /\ outcomes = <<>>
    /\ segments_done = 0

\* len(audio_segment)
AudioLength(audio) == IF audio = <<>> THEN 0 ELSE audio[Len(audio)][2]

\* the loop "Merge nearby transmissions": a range that starts less than
\* threshold after the end of the last merged one extends it
RECURSIVE MergeRanges(_, _, _)
MergeRanges(ranges, merged, threshold) ==
    IF ranges = <<>> THEN merged
    ELSE LET r == Head(ranges)
             last == Len(merged)
         IN IF merged # <<>> /\ r[1] - merged[last][2] < threshold
            THEN MergeRanges(Tail(ranges),
                             [merged EXCEPT ![last] = <<@[1], r[2]>>],
                             threshold)
            ELSE MergeRanges(Tail(ranges), Append(merged, r), threshold)

\* pydub's detect_nonsilent: silence is a stretch of at least
\* min_silence_len below the threshold, the ranges are what lies between
detect_nonsilent(audio, min_silence_len) ==
    MergeRanges(audio, <<>>, min_silence_len)

\* the gap under which process_complete_segment merges two ranges
MergeThreshold == merge_gap_threshold

\* `min_length <= transmission_length <= max_length`
LengthPasses(range) ==
    /\ min_transmission_length <= range[2] - range[1]
    /\ range[2] - range[1] <= max_transmission_length

\* save_transmission_ffmpeg: the path of the clip, or None
SavedFile(result, exists) == exists /\ result = "ok"

\* CountSpan that does not count a failed extraction
CountSpan_dropped(how, saved, filtered) ==
    IF how = "saved" THEN <<saved + 1, filtered>>
    ELSE IF how = "failed" THEN <<saved, filtered>>
    ELSE <<saved, filtered + 1>>

\* saved_count and filtered_count after a range that ended as `how`
CountSpan(how, saved, filtered) ==
    IF how = "saved" THEN <<saved + 1, filtered>>
    ELSE <<saved, filtered + 1>>

\* process_complete_segment up to the for loop over merged_ranges; the
\* early returns leave the file, the except clause unlinks it
SegBegin(condition, audio) ==
    LET proceeds == condition = "good" /\ AudioLength(audio) >= min_segment_ms
    IN
    /\ seg_pc \in {"idle", "done"}
    /\ segments_done < MaxSegments
    /\ seg_file' = [condition |-> condition,
                    audio |-> IF condition = "good" THEN audio ELSE <<>>]
    /\ source_exists' = (condition \in {"tiny", "good"})
    /\ merged_ranges' =
          IF proceeds
          THEN MergeRanges(detect_nonsilent(audio, silence_gap), <<>>,
                           MergeThreshold)
          ELSE <<>>
    /\ span_index' = 0
    /\ saved_count' = 0
    /\ filtered_count' = 0
    /\ outcomes' = <<>>
    /\ seg_pc' = IF proceeds THEN "spans" ELSE "done"
    /\ segments_done' = IF proceeds THEN segments_done ELSE segments_done + 1
    /\ UNCHANGED <<recVars, detVars, tunVars, raceVars>>

\* one pass of the for loop: the length filter, the level check, the
\* extraction; a saved clip has the source temp file removed by
\* cleanup_related_temp_files
SegSpan(voiced, result) ==
    LET range == merged_ranges[span_index + 1]
        how == IF ~LengthPasses(range) THEN "length"
               ELSE IF ~voiced THEN "quiet"
               ELSE IF SavedFile(result, source_exists) THEN "saved"
               ELSE "failed"
        counts == CountSpan(how, saved_count, filtered_count)
    IN
    /\ seg_pc = "spans"
    /\ span_index < Len(merged_ranges)
    /\ span_index' = span_index + 1
    /\ saved_count' = counts[1]
    /\ filtered_count' = counts[2]
    /\ outcomes' = Append(outcomes, [range |-> range, how |-> how])
    /\ source_exists' = (source_exists /\ how # "saved")
    /\ UNCHANGED <<seg_pc, seg_file, merged_ranges, segments_done>>
    /\ UNCHANGED <<recVars, detVars, tunVars, raceVars>>

\* the for loop is over: the temp file is unlinked, the method returns
SegEnd ==
    /\ seg_pc = "spans"
    /\ span_index = Len(merged_ranges)
    /\ source_exists' = FALSE
    /\ seg_pc' = "done"
    /\ segments_done' = segments_done + 1
    /\ UNCHANGED <<seg_file, merged_ranges, span_index, saved_count,
                   filtered_count, outcomes>>
    /\ UNCHANGED <<recVars, detVars, tunVars, raceVars>>

(***************************************************************************)
(* VadAutoTuner: the analysis of a channel's metrics window, the           *)
(* recommendations, and apply_auto_adjustments.  Numbers are integers: an  *)
(* energy of the window is in units of 1e-6 and an energy threshold in     *)
(* units of 1e-7, a ZCR percentile in units of 1e-3 and a ZCR bound in     *)
(* units of 1e-4, the sensitivity factor in tenths, the clock in ticks of  *)
(* 1800 s; a rate is the pair of the counts it is the quotient of.         *)
(***************************************************************************)
\* ticks of the clock
MaxClock == 3
\* adjustments the history of a channel records
MaxAdjustments == 2

TunerVad ==
    [ energy_threshold |-> 80, zcr_min |-> 800, zcr_max |-> 3200,
      speech_frames_to_start |-> 7,
      min_transmission_ms |-> 2000, max_transmission_ms |-> 30000 ]

\* a configuration file: one channel, its auto_adjust and vad settings
TunerConfig(enabled) ==
    [ ch |-> [ auto_adjust |-> [ enabled |-> enabled,
                                 adjustment_frequency_hours |-> 1,
                                 min_samples_required |-> 4,
                                 sensitivity_factor |-> 15 ],
               vad |-> TunerVad ] ]

\* values of speech_frames_to_start a channel is configured with: 7 is the
\* default, 2 and 10 lie outside the two values the tuner recommends
SpeechFramesToStart == {2, 7, 10}

TunerConfigs ==
    { [TunerConfig(enabled) EXCEPT !.ch.vad.speech_frames_to_start = frames] :
         enabled \in BOOLEAN, frames \in SpeechFramesToStart }

\* what get_channel_metrics returns, by the figures the analysis takes from
\* it: the counts of samples, and the numpy/statistics results over them
BaseWindow ==
    [ recorded |-> 10, not_recorded |-> 10,
      false_positives |-> 0, potential_missed |-> 0,
      zcr_p5 |-> 50, zcr_p95 |-> 350,
      durations |-> 10, short |-> 0, avg_duration |-> 4000,
      noise_floor |-> 2, speech_threshold |-> 20 ]

MetricsWindows ==
    { \* three samples
      [BaseWindow EXCEPT !.recorded = 2, !.not_recorded = 1, !.durations = 2],
      \* a recorded sample without zero crossings, rates at their limits
      [BaseWindow EXCEPT !.zcr_p5 = 0, !.potential_missed = 1, !.short = 3],
      \* both rates over their limits, short recordings over 0.30
      [BaseWindow EXCEPT !.false_positives = 3, !.potential_missed = 2,
                         !.short = 4, !.avg_duration = 600],
      \* false positives at 0.20, missed recordings over 0.15, ZCR
      \* percentiles below 0.01
      [BaseWindow EXCEPT !.false_positives = 2, !.potential_missed = 2,
                         !.zcr_p5 = 5, !.zcr_p95 = 5],
      \* short recordings over 0.30 with a large average, ZCR percentiles at 1
      [BaseWindow EXCEPT !.short = 4, !.avg_duration = 70000,
                         !.zcr_p5 = 1000, !.zcr_p95 = 1000],
      \* nothing was recorded
      [BaseWindow EXCEPT !.recorded = 0, !.durations = 0,
                         !.potential_missed = 2] }

NoCall ==
    [ channel |-> "", force |-> FALSE, window |-> BaseWindow,
      analysed |-> FALSE, returned |-> "none" ]

\* VadAutoTuner.__init__, next to a configuration file
TunFresh(config) ==
    /\ tuner_config = config
    /\ adjustment_history = EmptyDict
    /\ clock = 0
    /\ tuner_call = NoCall
    /\ channel_metrics = EmptyDict

\* `len(a) / len(b) if b else 0`, and its comparison with num / den
Rate(k, n) == [k |-> k, n |-> n]
RateAbove(rate, num, den) == rate.n > 0 /\ rate.k * den > num * rate.n

\* _perform_statistical_analysis: the figures the recommendations use
perform_statistical_analysis(w) ==
    [ total_samples |-> w.recorded + w.not_recorded,
      noise_floor |-> IF w.not_recorded > 0 THEN w.noise_floor ELSE 0,
      speech_threshold |-> IF w.recorded > 0 THEN w.speech_threshold ELSE 0,
      false_positive_rate |-> Rate(w.false_positives, w.recorded),
      potential_missed_rate |-> Rate(w.potential_missed, w.not_recorded),
      zcr_range |-> IF w.recorded > 0 THEN <<w.zcr_p5, w.zcr_p95>>
                    ELSE <<50, 350>>,
      avg_recording_duration |-> IF w.durations > 0 THEN w.avg_duration ELSE 0,
      short_recording_rate |-> Rate(w.short, w.durations) ]

\* EnergyRecommendation that looks at the missed recordings first
EnergyRecommendation_missed_first(analysis, sensitivity_factor) ==
    IF RateAbove(analysis.potential_missed_rate, 1, 10)
    THEN ("energy_threshold" :> analysis.noise_floor * sensitivity_factor)
         @@ ("energy_threshold_reason" :> "Improving sensitivity")
    ELSE IF RateAbove(analysis.false_positive_rate, 1, 5)
    THEN ("energy_threshold" :> 8 * analysis.speech_threshold)
         @@ ("energy_threshold_reason" :> "Reducing false positives")
    ELSE EmptyDict

\* "Energy threshold recommendation"
EnergyRecommendation(analysis, sensitivity_factor) ==
    IF RateAbove(analysis.false_positive_rate, 1, 5)
    THEN ("energy_threshold" :> 8 * analysis.speech_threshold)
         @@ ("energy_threshold_reason" :> "Reducing false positives")
    ELSE IF RateAbove(analysis.potential_missed_rate, 1, 10)
    THEN ("energy_threshold" :> analysis.noise_floor * sensitivity_factor)
         @@ ("energy_threshold_reason" :> "Improving sensitivity")
    ELSE EmptyDict

\* "ZCR range recommendation"
ZcrRecommendation(analysis) ==
    IF analysis.zcr_range[1] > 0 /\ analysis.zcr_range[2] > 0
    THEN ("zcr_min" :> Max(100, 8 * analysis.zcr_range[1]))
         @@ ("zcr_max" :> Min(9000, 12 * analysis.zcr_range[2]))
         @@ ("zcr_reason" :> "Optimizing for observed speech patterns")
    ELSE EmptyDict

\* "Minimum transmission duration recommendation"
MinTransmissionRecommendation(analysis) ==
    IF RateAbove(analysis.short_recording_rate, 3, 10)
    THEN ("min_transmission_ms" :>
             Max(1000, analysis.avg_recording_duration \div 2))
         @@ ("min_transmission_reason" :> "Reducing short recordings")
    ELSE EmptyDict

\* "Speech frames to start recommendation"
SpeechFramesRecommendation(analysis) ==
    IF RateAbove(analysis.false_positive_rate, 3, 20)
    THEN ("speech_frames_to_start" :> 8)
         @@ ("speech_frames_reason" :> "Reducing false positives")
    ELSE IF RateAbove(analysis.potential_missed_rate, 3, 20)
    THEN ("speech_frames_to_start" :> 3)
         @@ ("speech_frames_reason" :> "Improving responsiveness")
    ELSE EmptyDict

\* _calculate_parameter_recommendations: the dict of recommendations
calculate_parameter_recommendations(analysis, config) ==
    EnergyRecommendation(analysis, config.sensitivity_factor)
    @@ ZcrRecommendation(analysis)
    @@ MinTransmissionRecommendation(analysis)
    @@ SpeechFramesRecommendation(analysis)

\* the keys of the dict that `param.endswith('_reason')` skips
ReasonKeys ==
    { "energy_threshold_reason", "zcr_reason", "min_transmission_reason",
      "speech_frames_reason" }

\* InsufficientData that lets a window one sample short pass
InsufficientData_short(samples, min_samples_required) ==
    samples < min_samples_required - 1

\* `len(metrics) < auto_adjust_config.min_samples_required`
InsufficientData(samples, min_samples_required) ==
    samples < min_samples_required

\* analyze_channel_performance: {} on insufficient data
analyze_channel_performance(w, auto_adjust_config) ==
    LET analysis == perform_statistical_analysis(w)
    IN IF InsufficientData(w.recorded + w.not_recorded,
                           auto_adjust_config.min_samples_required)
       THEN [empty |-> TRUE, analysis |-> analysis,
             recommendations |-> EmptyDict]
       ELSE [empty |-> FALSE, analysis |-> analysis,
             recommendations |->
                calculate_parameter_recommendations(analysis,
                                                    auto_adjust_config)]

\* TooSoon that never holds an adjustment back
TooSoon_never(last_adjustment, force, now, hours) == FALSE

\* "Check if enough time has passed since last adjustment"
TooSoon(last_adjustment, force, now, hours) ==
    /\ last_adjustment # <<>>
    /\ ~force
    /\ (now - last_adjustment[Len(last_adjustment)]) * 1800 < hours * 3600

apply_auto_adjustments(channel_name, force, w) ==
    LET call(analysed, result) ==
            [ channel |-> channel_name, force |-> force, window |-> w,
              analysed |-> analysed, returned |-> result ]
        ReturnFalse(history, analysed) ==
            /\ tuner_config' = tuner_config
            /\ adjustment_history' = history
            /\ tuner_call' = call(analysed, "False")
    IN
    /\ Len(Get(adjustment_history, channel_name, <<>>)) < MaxAdjustments
    /\ UNCHANGED <<clock, channel_metrics, recVars, detVars, segVars, raceVars>>
    /\ IF channel_name \notin DOMAIN tuner_config
       THEN ReturnFalse(adjustment_history, FALSE)
       ELSE
       LET channel_config == tuner_config[channel_name]
           auto_adjust_config == channel_config.auto_adjust
           \* self.adjustment_history is a defaultdict(list)
           last_adjustment == Get(adjustment_history, channel_name, <<>>)
           looked_up == Put(adjustment_history, channel_name, last_adjustment)
           analysis_result ==
               analyze_channel_performance(w, auto_adjust_config)
           recommendations == analysis_result.recommendations
           vad_config == channel_config.vad
           applied_changes ==
               { param \in DOMAIN recommendations \ ReasonKeys :
                    param \in DOMAIN vad_config }
       IN IF ~auto_adjust_config.enabled /\ ~force
          THEN ReturnFalse(adjustment_history, FALSE)
          ELSE IF TooSoon(last_adjustment, force, clock,
                          auto_adjust_config.adjustment_frequency_hours)
          THEN ReturnFalse(looked_up, FALSE)
          ELSE IF analysis_result.empty
          THEN ReturnFalse(looked_up, TRUE)
          ELSE IF DOMAIN recommendations = {}
          THEN ReturnFalse(looked_up, TRUE)
          ELSE IF applied_changes = {}
          THEN ReturnFalse(looked_up, TRUE)
          ELSE /\ tuner_config' =
                    [tuner_config EXCEPT ![channel_name].vad =
                        [param \in DOMAIN vad_config |->
                            IF param \in applied_changes
                            THEN recommendations[param]
                            ELSE vad_config[param]]]
               /\ adjustment_history' =
                    Put(adjustment_history, channel_name,
                        Append(last_adjustment, clock))
               /\ tuner_call' = call(TRUE, "True")

(***************************************************************************)
(* VadMetricsCollector: collect_metrics stores one row per audio chunk,    *)
(* get_channel_metrics returns the rows of a channel.  A speech            *)
(* probability is in thirtieths: 0.3 is 9, 0.4 is 12, 0.7 is 21.           *)
(***************************************************************************)
\* rows collect_metrics stores for the channel
MaxSamples == 4

\* audio chunks by what _estimate_speech_probability looks at: whether the
\* energy lies in (1e-6, 1e-3), the ZCR in (0.05, 0.3), the spectral
\* centroid in (300, 3000)
Chunks ==
    [ energy_in : BOOLEAN, zcr_in : BOOLEAN, centroid_in : BOOLEAN ]

\* an estimate whose scores outside the ranges are 0
estimate_speech_probability_zero(chunk) ==
    (IF chunk.energy_in THEN 10 ELSE 0)
    + (IF chunk.zcr_in THEN 10 ELSE 0)
    + (IF chunk.centroid_in THEN 10 ELSE 0)

\* _estimate_speech_probability: (energy_score + zcr_score +
\* spectral_score) / 3.0
estimate_speech_probability(chunk) ==
    (IF chunk.energy_in THEN 10 ELSE 5)
    + (IF chunk.zcr_in THEN 10 ELSE 3)
    + (IF chunk.centroid_in THEN 10 ELSE 4)

Stored(table) ==
    LET RECURSIVE Sum(_)
        Sum(rows) == IF rows = {} THEN 0
                     ELSE LET row == CHOOSE r \in rows : TRUE
                          IN table[row] + Sum(rows \ {row})
    IN Sum(DOMAIN table)

\* collect_metrics(channel_name, audio_chunk, sample_rate, was_recorded,
\* recording_duration_ms), for the channel "ch"
collect_metrics(chunk, was_recorded) ==
    LET row == [ was_recorded |-> was_recorded,
                 speech_probability |-> estimate_speech_probability(chunk) ]
    IN /\ Stored(channel_metrics) < MaxSamples
       /\ channel_metrics' =
             Put(channel_metrics, row, Get(channel_metrics, row, 0) + 1)
       /\ UNCHANGED <<tuner_config, adjustment_history, clock, tuner_call>>
       /\ UNCHANGED <<recVars, detVars, segVars, raceVars>>

\* what get_channel_metrics returns for the table, by the figures the
\* analysis takes from it; every recorded chunk has a duration, and the
\* statistics of energy, ZCR and duration are those of BaseWindow
CollectedWindow(table) ==
    LET Recorded(row) == row.was_recorded
        NotRecorded(row) == ~row.was_recorded
        FalsePositive(row) == row.was_recorded /\ row.speech_probability < 9
        Missed(row) == ~row.was_recorded /\ row.speech_probability > 21
        \* how many rows of the table satisfy Test
        CountRows(Test(_)) ==
            Stored([row \in { r \in DOMAIN table : Test(r) } |-> table[row]])
    IN [BaseWindow EXCEPT
           !.recorded = CountRows(Recorded),
           !.not_recorded = CountRows(NotRecorded),
           !.false_positives = CountRows(FalsePositive),
           !.potential_missed = CountRows(Missed),
           !.durations = CountRows(Recorded)]

\* time passes
Tick ==
    /\ clock < MaxClock
    /\ clock' = clock + 1
    /\ UNCHANGED <<tuner_config, adjustment_history, tuner_call,
                   channel_metrics>>
    /\ UNCHANGED <<recVars, detVars, segVars, raceVars>>

(***************************************************************************)
(* AudioProcessor: the frame-level boundary detector.  A frame is the      *)
(* block of frame_size samples that process_mp3_stream cuts; it is known   *)
(* by its position in the stream (1, 2, ...), and by the two features      *)
(* simple_vad computes from it: energy in units of 1e-6 and zero-crossing  *)
(* rate in hundredths.                                                     *)
(***************************************************************************)
target_sample_rate == 16000
frame_duration_ms == 20
frame_size == (target_sample_rate * frame_duration_ms) \div 1000

\* frames fed to one detector with the default counts (7 frames to start,
\* 20 frames of hang time), and to one with the short counts
MaxFrames == 36
MaxShortFrames == 13

\* the defaults of AudioProcessor.__init__
DefaultVad ==
    [ energy_threshold |-> 8, zcr_min |-> 8, zcr_max |-> 32,
      speech_frames_to_start |-> 7, hang_time_ms |-> 400, preroll_ms |-> 250,
      min_transmission_ms |-> 2000, max_transmission_ms |-> 30000 ]

\* channel settings: the defaults with transmission limits a short capture
\* reaches, and settings with short counts where the limits are met exactly,
\* missed by 1 ms, and where hang_time_ms is no multiple of the frame
VadConfigs ==
    { [DefaultVad EXCEPT !.min_transmission_ms = 700,
                         !.max_transmission_ms = 720] }
    \cup
    { [DefaultVad EXCEPT !.speech_frames_to_start = sfs,
                         !.hang_time_ms = hang,
                         !.preroll_ms = 50,
                         !.min_transmission_ms = min,
                         !.max_transmission_ms = 160] :
        sfs \in {1, 2}, hang \in {20, 50}, min \in {100, 101} }

\* length of the decoded stream the detector is fed
StreamFrames ==
    IF vad.speech_frames_to_start = DefaultVad.speech_frames_to_start
    THEN MaxFrames ELSE MaxShortFrames

\* frames by their features: speech, energy at the threshold, ZCR at the
\* upper bound, ZCR at the lower bound
FrameKinds ==
    { [energy |-> 9, zcr |-> 20], [energy |-> 8, zcr |-> 20],
      [energy |-> 9, zcr |-> 32], [energy |-> 9, zcr |-> 8] }

\* frames that are no array of samples: a Python list, on which `frame**2`
\* raises, and None, on which `frame**2`, extend(frame) and frame.copy() do
MalformedFrames ==
    { [energy |-> 0, zcr |-> 0, form |-> "list"],
      [energy |-> 0, zcr |-> 0, form |-> "none"] }

Form(frame) == IF "form" \in DOMAIN frame THEN frame.form ELSE "array"

\* the caps of the sample histories and of the duration history
samples_cap == 1000
durations_cap == 100

NoTransmission == [none |-> TRUE, frames |-> <<>>]
Transmission(fs) == [none |-> FALSE, frames |-> fs]

\* int(x / y) for non-negative x and positive y
IntDiv(x, y) == x \div y

\* self.metrics: the outcome counters, and the histories, where a sample is
\* known by the position of the frame it was computed from
FreshMetrics ==
    [ transmissions_started |-> 0, transmissions_completed |-> 0,
      transmissions_discarded |-> 0, false_positives |-> 0,
      energy_values |-> <<>>, zcr_values |-> <<>>,
      transmission_durations |-> <<>> ]

\* no frame
NoFrame == [energy |-> 0, zcr |-> 0, form |-> "nothing"]

\* the thresholds of simple_vad in a parameter set, in the order it reads
\* them
Thresholds(v) == <<v.energy_threshold, v.zcr_min, v.zcr_max>>

\* AudioProcessor.__init__
DetFresh(v) ==
    /\ vad = v
    /\ hang_time_frames = IntDiv(v.hang_time_ms, frame_duration_ms)
    /\ preroll_buffer = <<>>
    /\ current_transmission = NoTransmission
    /\ speech_frame_count = 0
    /\ silence_frame_count = 0
    /\ is_in_transmission = FALSE
    /\ metrics = FreshMetrics
    /\ returned = NoTransmission
    /\ frames_fed = 0
    /\ tail_speech = 0
    /\ tail_silence = 0
    /\ pattern = "lead"
    /\ classifying = NoFrame
    /\ vad_read = <<>>
    /\ update_left = <<>>
    /\ snapshots = {Thresholds(v)}

\* simple_vad on given thresholds: energy above the threshold and ZCR
\* strictly inside the band; False when the computation raises
SpeechWith(frame, threshold, low, high) ==
    /\ Form(frame) = "array"
    /\ frame.energy > threshold
    /\ low < frame.zcr /\ frame.zcr < high

\* simple_vad: energy above the threshold and ZCR strictly inside the band
simple_vad(frame) ==
    SpeechWith(frame, vad.energy_threshold, vad.zcr_min, vad.zcr_max)

\* Capped that never drops an entry
Capped_never(history, cap) == history

\* `if len(history) > cap: history.pop(0)`
Capped(history, cap) == IF Len(history) > cap THEN Tail(history) ELSE history

\* simple_vad, "Collect metrics for auto-tuner": the sample of frame f is
\* appended to both histories, unless the computation raised before
Sampled(m, frame, f) ==
    IF Form(frame) = "array"
    THEN [m EXCEPT !.energy_values = Capped(Append(@, f), samples_cap),
                   !.zcr_values = Capped(Append(@, f), samples_cap)]
    ELSE m

\* SeedTransmission that loses the oldest preroll frame
SeedTransmission_short(buffer) == IF buffer = <<>> THEN buffer ELSE Tail(buffer)

\* the accumulator of a transmission that starts: the preroll frames in
\* buffer order
SeedTransmission(buffer) == buffer

\* LengthInRange with an exclusive lower bound
LengthInRange_strict(nsamples) ==
    /\ vad.min_transmission_ms * target_sample_rate < nsamples * 1000
    /\ nsamples * 1000 <= vad.max_transmission_ms * target_sample_rate

\* `min_transmission_ms <= transmission_length_ms <= max_transmission_ms`
\* with transmission_length_ms = len(audio) * 1000 / target_sample_rate
LengthInRange(nsamples) ==
    /\ vad.min_transmission_ms * target_sample_rate <= nsamples * 1000
    /\ nsamples * 1000 <= vad.max_transmission_ms * target_sample_rate

\* `transmission_length_ms < min_transmission_ms`
LengthBelowMin(nsamples) ==
    nsamples * 1000 < vad.min_transmission_ms * target_sample_rate

\* Discarded that counts a transmission over the maximum as a false positive
\* only
Discarded_as_false(m, nsamples) ==
    IF LengthBelowMin(nsamples)
    THEN [m EXCEPT !.transmissions_discarded = @ + 1,
                   !.false_positives = @ + 1]
    ELSE [m EXCEPT !.false_positives = @ + 1]

\* the metrics after a transmission of nsamples samples was discarded
Discarded(m, nsamples) ==
    [m EXCEPT !.transmissions_discarded = @ + 1,
              !.false_positives =
                  IF LengthBelowMin(nsamples) THEN @ + 1 ELSE @]

\* "Maintain preroll buffer": append, drop the oldest beyond the capacity
PushPreroll(buffer, f) ==
    LET preroll_frames == IntDiv(vad.preroll_ms, frame_duration_ms)
        appended == Append(buffer, f)
    IN IF Len(appended) > preroll_frames THEN Tail(appended) ELSE appended

\* whether the call that closes a transmission still maintains the preroll
\* buffer: not when it returns the completed audio
MaintainsPrerollOnClose(complete) == ~complete

\* a speech counter that one non-speech frame clears
Decay_reset(count) == 0

\* the speech counter after a non-speech frame
Decay(count) == Max(0, count - 1)

\* ShouldStart that waits for one frame more
ShouldStart_late(in_transmission, count) ==
    ~in_transmission /\ count > vad.speech_frames_to_start

\* whether a transmission starts on a speech frame
ShouldStart(in_transmission, count) ==
    ~in_transmission /\ count >= vad.speech_frames_to_start

\* ShouldEnd that waits for one frame more
ShouldEnd_late(silence) == silence > hang_time_frames

\* ShouldEnd that also ends a transmission which has reached the maximum
ShouldEnd_max(silence) ==
    \/ silence >= hang_time_frames
    \/ (Len(current_transmission.frames) + 1) * frame_duration_ms
          >= vad.max_transmission_ms

\* whether a non-speech frame ends the transmission
ShouldEnd(silence) == silence >= hang_time_frames

\* shape of the input: "lead" only non-speech frames so far, "run" that
\* followed by speech frames only, "other" anything else
NextPattern(is_speech) ==
    IF is_speech THEN (IF pattern = "other" THEN "other" ELSE "run")
    ELSE (IF pattern = "lead" THEN "lead" ELSE "other")

\* process_frame on a frame that simple_vad classified as is_speech, of a
\* stream of limit frames
process_classified(frame, is_speech, limit) ==
    LET f == frames_fed + 1
        sampled == Sampled(metrics, frame, f)
    IN
    /\ frames_fed < limit
    /\ frames_fed' = f
    /\ tail_speech' = IF is_speech THEN tail_speech + 1 ELSE 0
    /\ tail_silence' = IF is_speech THEN 0 ELSE tail_silence + 1
    /\ pattern' = NextPattern(is_speech)
    /\ UNCHANGED <<vad, hang_time_frames>>
    /\ IF is_speech
       THEN LET count == speech_frame_count + 1
                starts == ShouldStart(is_in_transmission, count)
                acc == IF starts THEN SeedTransmission(preroll_buffer)
                       ELSE current_transmission.frames
            IN /\ speech_frame_count' = count
               /\ silence_frame_count' = 0
               /\ is_in_transmission' = (is_in_transmission \/ starts)
               /\ metrics' = IF starts
                             THEN [sampled EXCEPT !.transmissions_started = @ + 1]
                             ELSE sampled
               /\ current_transmission' =
                    IF is_in_transmission \/ starts
                    THEN Transmission(Append(acc, f))
                    ELSE current_transmission
               /\ preroll_buffer' = PushPreroll(preroll_buffer, f)
               /\ returned' = NoTransmission
       ELSE LET silence == silence_frame_count + 1
                count == Decay(speech_frame_count)
            IN IF Form(frame) = "none"
               \* extend(frame), or frame.copy(), raises: the except clause
               \* of process_frame returns None
               THEN /\ silence_frame_count' = silence
                    /\ speech_frame_count' = count
                    /\ metrics' = sampled
                    /\ returned' = NoTransmission
                    /\ UNCHANGED <<is_in_transmission, current_transmission,
                                   preroll_buffer>>
               ELSE IF is_in_transmission /\ ShouldEnd(silence)
               THEN LET audio == Append(current_transmission.frames, f)
                        nsamples == Len(audio) * frame_size
                        complete == LengthInRange(nsamples)
                        transmission_length_ms ==
                            (nsamples * 1000) \div target_sample_rate
                    IN /\ metrics' =
                            IF complete
                            THEN [sampled EXCEPT
                                    !.transmissions_completed = @ + 1,
                                    !.transmission_durations =
                                        Capped(Append(@, transmission_length_ms),
                                               durations_cap)]
                            ELSE Discarded(sampled, nsamples)
                       /\ is_in_transmission' = FALSE
                       /\ current_transmission' = NoTransmission
                       /\ speech_frame_count' = 0
                       /\ silence_frame_count' = 0
                       /\ returned' = IF complete THEN Transmission(audio)
                                      ELSE NoTransmission
                       /\ preroll_buffer' =
                            IF MaintainsPrerollOnClose(complete)
                            THEN PushPreroll(preroll_buffer, f)
                            ELSE preroll_buffer
               ELSE /\ silence_frame_count' = silence
                    /\ speech_frame_count' = count
                    /\ current_transmission' =
                         IF is_in_transmission
                         THEN Transmission(Append(current_transmission.frames, f))
                         ELSE current_transmission
                    /\ preroll_buffer' = PushPreroll(preroll_buffer, f)
                    /\ returned' = NoTransmission
                    /\ metrics' = sampled
                    /\ UNCHANGED is_in_transmission
    /\ UNCHANGED <<recVars, tunVars, segVars>>

process_frame(frame) ==
    /\ process_classified(frame, simple_vad(frame), StreamFrames)
    /\ UNCHANGED raceVars

\* a fresh detector of some channel, fed any frames
DetInit ==
    /\ RecInit(OneChannel)
    /\ TunFresh(TunerConfig(FALSE))
    /\ SegFresh
    /\ \E v \in VadConfigs : DetFresh(v)

DetNext == \E frame \in FrameKinds : process_frame(frame)

DetSpec == DetInit /\ [][DetNext]_vars

\* a fresh detector of some channel, fed frames of samples and objects that
\* are no frames of samples
MaxFaultFrames == 8

FaultFrame(frame) ==
    /\ process_classified(frame, simple_vad(frame), MaxFaultFrames)
    /\ UNCHANGED raceVars

FaultNext == \E frame \in FrameKinds \cup MalformedFrames : FaultFrame(frame)

FaultSpec == DetInit /\ [][FaultNext]_vars

(***************************************************************************)
(* update_vad_parameters, called by one thread while another one runs      *)
(* process_frame: the method assigns one attribute after the other and     *)
(* simple_vad reads one after the other, with no lock around either, so    *)
(* the steps of the two interleave.                                        *)
(***************************************************************************)
\* frames of the stream, and calls of update_vad_parameters
MaxRaceFrames == 2
MaxUpdates == 1

\* new_params of a call: a recommendation for the three thresholds, one for
\* the two frame counts, and one with a hang time that is no multiple of the
\* frame and with a key the method has no case for
NewParams ==
    { [energy_threshold |-> 3, zcr_min |-> 35, zcr_max |-> 45],
      [speech_frames_to_start |-> 3, hang_time_ms |-> 40],
      [hang_time_ms |-> 50, min_transmission_ms |-> 120] }

\* the parameters in the order update_vad_parameters looks for them
UpdateOrder ==
    << "energy_threshold", "zcr_min", "zcr_max", "speech_frames_to_start",
       "hang_time_ms" >>

\* the parameters the method has an `if ... in new_params` for
Updatable == { UpdateOrder[k] : k \in 1..Len(UpdateOrder) }

\* the parameter set after all writes of a call
Updated(v, new_params) ==
    [param \in DOMAIN v |->
        IF param \in DOMAIN new_params \cap Updatable
        THEN new_params[param] ELSE v[param]]

\* update_vad_parameters is called: the assignments it will make
update_vad_parameters(new_params) ==
    LET IsGiven(param) == param \in DOMAIN new_params
        given == SelectSeq(UpdateOrder, IsGiven)
    IN
    /\ update_left = <<>>
    /\ Cardinality(snapshots) <= MaxUpdates
    /\ update_left' = [k \in 1..Len(given) |-> <<given[k], new_params[given[k]]>>]
    /\ snapshots' = snapshots \cup {Thresholds(Updated(vad, new_params))}
    /\ UNCHANGED <<classifying, vad_read>>
    /\ UNCHANGED <<recVars, detVars, tunVars, segVars>>

\* the next assignment of update_vad_parameters
UpdateWrite ==
    /\ update_left # <<>>
    /\ LET param == Head(update_left)[1]
           value == Head(update_left)[2]
       IN /\ vad' = [vad EXCEPT ![param] = value]
          /\ hang_time_frames' =
                IF param = "hang_time_ms"
                THEN IntDiv(value, frame_duration_ms) ELSE hang_time_frames
    /\ update_left' = Tail(update_left)
    /\ UNCHANGED <<classifying, vad_read, snapshots>>
    /\ UNCHANGED <<preroll_buffer, current_transmission, speech_frame_count,
                   silence_frame_count, is_in_transmission, metrics, returned,
                   frames_fed, tail_speech, tail_silence, pattern>>
    /\ UNCHANGED <<recVars, tunVars, segVars>>

\* process_frame calls simple_vad: `energy > self.energy_threshold`
VadReadEnergy(frame) ==
    /\ classifying = NoFrame
    /\ frames_fed < MaxRaceFrames
    /\ classifying' = frame
    /\ vad_read' = <<vad.energy_threshold>>
    /\ UNCHANGED <<update_left, snapshots>>
    /\ UNCHANGED <<recVars, detVars, tunVars, segVars>>

\* `self.zcr_min < zero_crossing_rate`
VadReadZcrMin ==
    /\ classifying # NoFrame
    /\ Len(vad_read) = 1
    /\ vad_read' = Append(vad_read, vad.zcr_min)
    /\ UNCHANGED <<classifying, update_left, snapshots>>
    /\ UNCHANGED <<recVars, detVars, tunVars, segVars>>

\* `zero_crossing_rate < self.zcr_max`, which the chained comparison only
\* evaluates if its first half holds; then the rest of process_frame
VadFinish ==
    /\ classifying # NoFrame
    /\ Len(vad_read) = 2
    /\ LET reads_max == vad_read[2] < classifying.zcr
           zcr_max == IF reads_max THEN vad.zcr_max ELSE 0
           is_speech == /\ reads_max
                        /\ SpeechWith(classifying, vad_read[1], vad_read[2],
                                       zcr_max)
       IN /\ vad_read' = IF reads_max THEN Append(vad_read, zcr_max)
                         ELSE vad_read
          /\ process_classified(classifying, is_speech, MaxRaceFrames)
    /\ classifying' = NoFrame
    /\ UNCHANGED <<update_left, snapshots>>

RaceInit ==
    /\ RecInit(OneChannel)
    /\ TunFresh(TunerConfig(FALSE))
    /\ SegFresh
    /\ DetFresh(DefaultVad)

RaceNext ==
    \/ \E new_params \in NewParams : update_vad_parameters(new_params)
    \/ UpdateWrite
    \/ \E frame \in FrameKinds : VadReadEnergy(frame)
    \/ VadReadZcrMin
    \/ VadFinish

RaceSpec == RaceInit /\ [][RaceNext]_vars

(***************************************************************************)
(* update_vad_parameters called between two frames by the thread that      *)
(* feeds the detector: the whole call is one step.                         *)
(***************************************************************************)
MaxUpdateFrames == 5

\* HangFrames that keeps the frame count of the constructor
HangFrames_stale(frames, v, new_params) == frames

\* hang_time_frames after a call: recomputed if hang_time_ms is given
HangFrames(frames, v, new_params) ==
    IF "hang_time_ms" \in DOMAIN new_params
    THEN IntDiv(Updated(v, new_params).hang_time_ms, frame_duration_ms)
    ELSE frames

UpdateCall(new_params) ==
    /\ classifying = NoFrame
    /\ update_left = <<>>
    /\ Cardinality(snapshots) <= MaxUpdates
    /\ vad' = Updated(vad, new_params)
    /\ hang_time_frames' = HangFrames(hang_time_frames, vad, new_params)
    /\ snapshots' = snapshots \cup {Thresholds(Updated(vad, new_params))}
    /\ UNCHANGED <<classifying, vad_read, update_left>>
    /\ UNCHANGED <<preroll_buffer, current_transmission, speech_frame_count,
                   silence_frame_count, is_in_transmission, metrics, returned,
                   frames_fed, tail_speech, tail_silence, pattern>>
    /\ UNCHANGED <<recVars, tunVars, segVars>>

UpdateFrame(frame) ==
    /\ process_classified(frame, simple_vad(frame), MaxUpdateFrames)
    /\ UNCHANGED raceVars

UpdateNext ==
    \/ \E new_params \in NewParams : UpdateCall(new_params)
    \/ \E frame \in FrameKinds \cup MalformedFrames : UpdateFrame(frame)

UpdateSpec == DetInit /\ [][UpdateNext]_vars

(***************************************************************************)
(* A detector with short counts on a long stream: two speech frames, one   *)
(* non-speech frame, and so on, each round a transmission of 100 ms.       *)
(***************************************************************************)
\* frames of the long stream
MaxMetricsFrames == 1003

MetricsVad ==
    [DefaultVad EXCEPT !.speech_frames_to_start = 1, !.hang_time_ms = 20,
                       !.preroll_ms = 50, !.min_transmission_ms = 100,
                       !.max_transmission_ms = 160]

MetricsInit ==
    /\ RecInit(OneChannel)
    /\ TunFresh(TunerConfig(FALSE))
    /\ SegFresh
    /\ DetFresh(MetricsVad)

\* the next frame of the stream
MetricsFrame ==
    IF tail_speech < 2 THEN [energy |-> 9, zcr |-> 20]
    ELSE [energy |-> 8, zcr |-> 20]

MetricsNext ==
    /\ process_classified(MetricsFrame, simple_vad(MetricsFrame),
                          MaxMetricsFrames)
    /\ UNCHANGED raceVars

MetricsSpec == MetricsInit /\ [][MetricsNext]_vars

(***************************************************************************)
(* The recorder under its control API: any interleaving of start and stop  *)
(* calls with the steps of the workers.                                    *)
(***************************************************************************)
Init ==
    /\ RecInit(OneChannel)
    /\ DetFresh(DefaultVad)
    /\ TunFresh(TunerConfig(FALSE))
    /\ SegFresh

Next ==
    \/ \E ids \in StartArgs : start_recording(ids)
    \/ start_recording_all
    \/ \E ids \in StartArgs : stop_recording(ids)
    \/ stop_recording_all
    \/ \E c \in ChannelIds : JoinBegin(c)
    \/ JoinEnd
    \/ \E t \in Threads : WorkerStep(t, MaxFailures)

Spec == Init /\ [][Next]_vars

\* the channel c1 started and stopped any number of times, where the
\* scheduler does not stall the workers: while some worker can take a step
\* (a network read or a sleep returns, a statement runs) one of them
\* eventually does.  A worker that can step stays able to until it does, so
\* this asks no more than fairness to every single thread.
LiveNext ==
    \/ start_recording({"c1"})
    \/ stop_recording({"c1"})
    \/ JoinBegin("c1")
    \/ JoinEnd
    \/ \E i \in Slots : WorkerStep(<<"c1", i>>, MaxFailures)

LiveSpec ==
    /\ Init /\ [][LiveNext]_vars
    /\ WF_recVars(\E i \in Slots : WorkerStep(<<"c1", i>>, MaxFailures))

(***************************************************************************)
(* The tuner called for any channel name, forced or not, on any metrics    *)
(* window, as time passes.                                                 *)
(***************************************************************************)
TunerInit ==
    /\ RecInit(OneChannel)
    /\ DetFresh(DefaultVad)
    /\ \E config \in TunerConfigs : TunFresh(config)
    /\ SegFresh

\* ("nope" is a channel name that is not in the configuration file)
TunerNext ==
    \/ \E force \in BOOLEAN, w \in MetricsWindows :
          apply_auto_adjustments("ch", force, w)
    \/ \E force \in BOOLEAN : apply_auto_adjustments("nope", force, BaseWindow)
    \/ Tick

TunerSpec == TunerInit /\ [][TunerNext]_vars

(***************************************************************************)
(* The collector fed with chunks of the channel, and then the tuner called *)
(* on what the collector stored.                                           *)
(***************************************************************************)
CollectInit ==
    /\ RecInit(OneChannel)
    /\ DetFresh(DefaultVad)
    /\ TunFresh(TunerConfig(TRUE))
    /\ SegFresh

CollectNext ==
    \/ \E chunk \in Chunks, was_recorded \in BOOLEAN :
          tuner_call = NoCall /\ collect_metrics(chunk, was_recorded)
    \/ \E force \in BOOLEAN :
          apply_auto_adjustments("ch", force, CollectedWindow(channel_metrics))

CollectSpec == CollectInit /\ [][CollectNext]_vars

(***************************************************************************)
(* The tuner next to the running detector of its channel: the detector was *)
(* built from the channel's settings in the configuration file and is fed  *)
(* frames while the tuner is called.                                       *)
(***************************************************************************)
\* frames fed to the detector next to the tuner
MaxLoopFrames == 3

LoopInit ==
    /\ RecInit(OneChannel)
    /\ SegFresh
    /\ DetFresh(DefaultVad)
    /\ \E enabled \in BOOLEAN : TunFresh(TunerConfig(enabled))

LoopNext ==
    \/ \E force \in BOOLEAN, w \in MetricsWindows :
          apply_auto_adjustments("ch", force, w)
    \/ Tick
    \/ \E frame \in FrameKinds :
          /\ process_classified(frame, simple_vad(frame), MaxLoopFrames)
          /\ UNCHANGED raceVars

LoopSpec == LoopInit /\ [][LoopNext]_vars

(***************************************************************************)
(* Two configured channels, each started and stopped on its own by a       *)
(* client that restarts a channel only once its last worker is gone.       *)
(***************************************************************************)
TwoChannels == [c \in ChannelIds |-> [enabled |-> TRUE]]

TwoInit ==
    /\ RecInit(TwoChannels)
    /\ DetFresh(DefaultVad)
    /\ TunFresh(TunerConfig(FALSE))
    /\ SegFresh

TwoNext ==
    \/ \E c \in ChannelIds : LiveWorkers(c) = {} /\ start_recording({c})
    \/ \E c \in ChannelIds : stop_recording({c})
    \/ \E c \in ChannelIds : JoinBegin(c)
    \/ JoinEnd
    \/ \E t \in Threads : WorkerStep(t, MaxFailures)

TwoSpec == TwoInit /\ [][TwoNext]_vars

(***************************************************************************)
(* A configuration with an enabled and a disabled channel, under the       *)
(* calls the scripts make: start_recording() and stop_recording() without  *)
(* a list, and start_recording(list(recorder.channels.keys())) of          *)
(* start_recording.py; a call to start is made once no worker of a         *)
(* stopped channel is left.                                                *)
(***************************************************************************)
MixedChannels == [c \in ChannelIds |-> [enabled |-> (c = "c1")]]

MixedInit ==
    /\ RecInit(MixedChannels)
    /\ DetFresh(DefaultVad)
    /\ TunFresh(TunerConfig(FALSE))
    /\ SegFresh

\* every worker that is alive belongs to a channel that records
NoneAbandoned == \A c \in ChannelIds : IsRec(c) \/ LiveWorkers(c) = {}

MixedNext ==
    \/ NoneAbandoned /\ start_recording_all
    \/ NoneAbandoned /\ start_recording(DOMAIN channels)
    \/ stop_recording_all
    \/ \E c \in ChannelIds : JoinBegin(c)
    \/ JoinEnd
    \/ \E t \in Threads : WorkerStep(t, MaxFailures)

MixedSpec == MixedInit /\ [][MixedNext]_vars

(***************************************************************************)
(* A worker's calls of process_complete_segment, one captured file after   *)
(* the other, on any file and with any result of the extractions.          *)
(***************************************************************************)
SegInit ==
    /\ RecInit(OneChannel)
    /\ DetFresh(DefaultVad)
    /\ TunFresh(TunerConfig(FALSE))
    /\ SegFresh

SegNext ==
    \/ \E condition \in FileConditions, audio \in Audios :
          SegBegin(condition, audio)
    \/ \E voiced \in BOOLEAN, result \in ExtractionResults :
          SegSpan(voiced, result)
    \/ SegEnd

SegSpec == SegInit /\ [][SegNext]_vars

(***************************************************************************)
(* One worker whose loop iterations run process_complete_segment on the    *)
(* file they captured: the call is made where the worker is "processing",  *)
(* runs to its return, and the worker goes on with the statements after    *)
(* the call.                                                               *)
(***************************************************************************)
IterWorker == <<"c1", 1>>

\* `self.process_complete_segment(temp_filepath, channel_id)` is called
SegCall(condition, audio) ==
    /\ pc[IterWorker] = "processing"
    /\ seg_pc = "idle"
    /\ SegBegin(condition, audio)

\* the call returns, by a return statement or from its except clause; it
\* raises nothing, so the statements after it run
SegReturn ==
    /\ seg_pc = "done"
    /\ AfterProcessing(IterWorker)
    /\ seg_pc' = "idle"
    /\ UNCHANGED <<seg_file, source_exists, merged_ranges, span_index,
                   saved_count, filtered_count, outcomes, segments_done>>
    /\ UNCHANGED <<detVars, tunVars, raceVars>>

IterNext ==
    \/ start_recording({"c1"})
    \/ LoopCheck(IterWorker)
    \/ Connect(IterWorker)
    \/ FailureCaught(IterWorker, MaxFailures)
    \/ RequestFailure(IterWorker)
    \/ UnexpectedFailure(IterWorker)
    \/ \E elapsed \in BOOLEAN : StreamChunk(IterWorker, elapsed)
    \/ StreamEnd(IterWorker)
    \/ SleepElapse(IterWorker)
    \/ SleepReturn(IterWorker)
    \/ \E condition \in FileConditions, audio \in Audios :
          SegCall(condition, audio)
    \/ \E voiced \in BOOLEAN, result \in ExtractionResults :
          SegSpan(voiced, result)
    \/ SegEnd
    \/ SegReturn

IterSpec == SegInit /\ [][IterNext]_vars

(***************************************************************************)
(* One worker that is started and left to run, and a client that polls     *)
(* the status: the failure counter, the backoff delays and the health over *)
(* a long run of failures.                                                 *)
(***************************************************************************)
BackoffWorker == <<"c1", 1>>

BackoffNext ==
    \/ start_recording({"c1"})
    \/ WorkerStep(BackoffWorker, MaxBackoffFailures)
    \/ get_status

BackoffSpec == Init /\ [][BackoffNext]_vars

(***************************************************************************)
(* Properties of the channel worker and its control.                       *)
(***************************************************************************)
\* C1: at most one worker (stream_recorder loop) is active for a channel at
\* any time, after any interleaving of start_recording and stop_recording.
C1_OneWorkerPerChannel ==
    \A c \in ChannelIds : Cardinality(LiveWorkers(c)) <= 1

\* C2: a worker in its backoff sleep whose recording flag has been cleared
\* can leave the sleep at once, without the remaining delay passing.
C2_BackoffInterruptible ==
    \A t \in Threads :
        (pc[t] = "backoff" /\ ~IsRec(ChannelOf(t))) => ENABLED SleepReturn(t)

\* C3: once the flag of a channel is cleared for good, every worker of the
\* channel eventually is out of its loop, and while the flag is cleared no
\* worker passes the loop condition into a new iteration.
C3_StopTerminates ==
    /\ \A c \in DOMAIN OneChannel :
          <>[](~IsRec(c)) => <>[](\A i \in Slots : pc[<<c, i>>] = "stopped")
    /\ [][\A t \in Threads :
            ~IsRec(ChannelOf(t)) => ~(pc[t] = "loop" /\ pc'[t] = "connecting")]_vars

\* a worker processed a segment, the channel was stopped and the worker left
C3_Witness ==
    /\ "c1" \in DOMAIN channel_last_success
    /\ "c1" \in DOMAIN is_recording /\ ~IsRec("c1")
    /\ StopIdle
    /\ \A i \in Slots : pc[<<"c1", i>>] = "stopped"

\* the delay the claim gives for a failure count of n
C10_Delay(n) ==
    IF n < 5 THEN Min(60, 5 * n) ELSE Min(300, 30 * Pow2(Min(n - 5, 4)))

\* C10: a connection/read failure that brings the failure count of the
\* channel to n sends the worker to sleep for min(60, 5n) seconds when
\* n < 5 and for min(300, 30 * 2^min(n-5, 4)) seconds when n >= 5.
C10_BackoffDelay ==
    [][\A t \in Threads :
         (RequestFailure(t) /\ pc'[t] = "backoff")
         => LET n == Get(channel_failures', ChannelOf(t), 0)
            IN /\ n = Failures(ChannelOf(t)) + 1
               /\ sleep_left'[t] = C10_Delay(n)]_vars

\* the tenth failure in a row: the delay is at its ceiling of 300 s
C10_Witness ==
    /\ pc[BackoffWorker] = "backoff"
    /\ Failures("c1") = 10
    /\ sleep_left[BackoffWorker] = 300

\* the delays the claim lists for the first six failures in a row
C11_Delays == <<5, 10, 15, 20, 25, 60>>

\* C11: with max_consecutive_failures = 5 and a counter that starts at zero,
\* six connection failures in a row send the worker to sleep for 5 s, 10 s,
\* 15 s, 20 s, 25 s and 60 s, in that order.
C11_SixFailures ==
    [][\A t \in Threads :
         (RequestFailure(t) /\ pc'[t] = "backoff")
         => LET n == Get(channel_failures', ChannelOf(t), 0)
            IN n <= 6 => sleep_left'[t] = C11_Delays[n]]_vars

\* the delays the failure before the n-th of a run can have set: the one of
\* a connection or read failure, and the one of an unexpected error
EarlierDelays(n) == {RequestBackoff(n - 1), UnexpectedBackoff(n - 1)}

\* C39: in a run of failed iterations of one worker, of whatever kinds, the
\* delay a failure sets is never below the delay the failure before it set,
\* and never above 300 seconds.
C39_BackoffMonotone ==
    LET n == Failures("c1")
        wait_time == sleep_left[BackoffWorker]
    IN (pc[BackoffWorker] = "backoff" /\ wait_time > 0) =>
          /\ wait_time <= 300
          /\ n >= 2 => \A earlier \in EarlierDelays(n) : wait_time >= earlier

\* a worker ends an iteration in an except clause, or after processing
FailedIteration(t) == pc[t] = "failed" /\ pc'[t] # "failed"
ProcessedIteration(t) == pc[t] = "processing" /\ pc'[t] = "loop"

\* C13: every failed iteration of a worker (connection/read failure or
\* unexpected error) raises the failure counter of its channel by exactly 1,
\* every iteration that processes its segment sets it to 0 and renews the
\* last-success stamp, nothing else changes the counter, and it is never
\* negative: the counter is the number of failed iterations since the last
\* one that completed processing.
C13_FailureCounter ==
    /\ [][\A t \in Threads :
            LET c == ChannelOf(t)
            IN /\ FailedIteration(t) =>
                     Get(channel_failures', c, 0) = Failures(c) + 1
               /\ ProcessedIteration(t) =>
                     /\ Get(channel_failures', c, 0) = 0
                     /\ c \in DOMAIN channel_last_success'
                     /\ Get(channel_last_success', c, 0)
                           # Get(channel_last_success, c, 0)]_vars
    /\ [][(\A t \in Threads : ~FailedIteration(t) /\ ~ProcessedIteration(t))
            => UNCHANGED channel_failures]_vars
    /\ [](\A c \in DOMAIN channel_failures : channel_failures[c] >= 0)

SameEntry(d1, d2, k) ==
    /\ k \in DOMAIN d1 <=> k \in DOMAIN d2
    /\ k \in DOMAIN d1 => d1[k] = d2[k]

\* a step of a stop_recording([c]) call: the flags, a join, the del
StopStep(c) ==
    \/ stop_recording({c})
    \/ JoinBegin(c)
    \/ JoinEnd /\ join_target[1] = c

\* stop_recording([c]) is at work
Stopping(c) == c \in stop_pending \/ join_target[1] = c

\* C15: stop_recording([c]) leaves the recording flag, the thread entry, the
\* failure counter and the last-success stamp of every other channel d as
\* they are, moves no worker of d, and while it waits for the worker of c
\* every running worker of d can take its next step.
C15_StopAffectsOnlyTarget ==
    /\ [][\A c \in ChannelIds : StopStep(c) =>
            \A d \in ChannelIds \ {c} :
               /\ SameEntry(is_recording', is_recording, d)
               /\ SameEntry(recording_threads', recording_threads, d)
               /\ SameEntry(channel_failures', channel_failures, d)
               /\ SameEntry(channel_last_success', channel_last_success, d)
               /\ \A i \in Slots : pc'[<<d, i>>] = pc[<<d, i>>]]_vars
    /\ [](\A c \in ChannelIds : Stopping(c) =>
            \A d \in ChannelIds \ {c} : \A i \in Slots :
               Alive(<<d, i>>) => ENABLED WorkerStep(<<d, i>>, MaxFailures))

\* c1 has been stopped and its thread entry deleted; c2, which has
\* processed a segment, still records and its worker is streaming
C15_Witness ==
    /\ StopIdle
    /\ "c1" \in DOMAIN is_recording /\ ~IsRec("c1")
    /\ "c1" \notin DOMAIN recording_threads
    /\ IsRec("c2")
    /\ "c2" \in DOMAIN recording_threads
    /\ "c2" \in DOMAIN channel_last_success
    /\ pc[<<"c2", 1>>] = "streaming"

\* the tier the claim gives for a failure count of f
C12_Tier(f) ==
    IF f = 0 THEN "healthy"
    ELSE IF 1 <= f /\ f <= 2 THEN "warning"
    ELSE IF 3 <= f /\ f < 5 THEN "degraded"
    ELSE "failed"

\* C12: the health get_status reports for a channel is a function of the
\* channel's failure count f alone (healthy if f = 0, warning if 1 <= f <= 2,
\* degraded if 3 <= f < 5, failed if f >= 5), and the call changes nothing
\* of the recorder.
C12_HealthTier ==
    /\ [][get_status =>
            /\ \A c \in DOMAIN channels :
                  /\ status'[c].consecutive_failures = Failures(c)
                  /\ status'[c].health = C12_Tier(Failures(c))
            /\ UNCHANGED <<channels, is_recording, recording_threads,
                           channel_failures, channel_last_success, pc,
                           sleep_left, temp_file, stop_pending, join_target,
                           pending_count>>]_vars
    /\ [](\A c \in DOMAIN status :
            status[c].health = C12_Tier(status[c].consecutive_failures))

\* the status was taken while the channel stood at five failures in a row
C12_Witness ==
    /\ "c1" \in DOMAIN status
    /\ status["c1"].consecutive_failures = max_consecutive_failures
    /\ status["c1"].health = "failed"
    /\ status["c1"].recording

\* the channels for which the step creates a worker thread
Started == { c \in ChannelIds : \E i \in Slots : /\ pc[<<c, i>>] = "stopped"
                                                /\ pc'[<<c, i>>] = "loop" }

\* C25: start_recording() without a list creates workers for exactly the
\* enabled channels that are not recording; no worker ever runs for a
\* channel whose enabled flag is false; stop_recording() without a list
\* leaves no channel with its recording flag set.
C25_EnabledOnly ==
    /\ [][start_recording_all =>
            Started = { c \in EnabledChannels : ~IsRec(c) }]_vars
    /\ [](\A t \in Threads : Alive(t) => channels[ChannelOf(t)].enabled)
    /\ [][stop_recording_all => \A c \in ChannelIds : ~IsRec(c)']_vars

\* the workers of channel c that are processing a captured segment
Processing(c) == { i \in Slots : pc[<<c, i>>] = "processing" }

\* C26: the segments of a channel are processed one after the other, in the
\* order they were captured: while one segment of the channel is being
\* processed no other segment of the channel is, after any sequence of
\* start_recording and stop_recording calls.
C26_SegmentsInOrder ==
    \A c \in ChannelIds : Cardinality(Processing(c)) <= 1

\* C29: once stop_recording has returned, a worker of the channel that is
\* still alive is still tracked: no channel has its recording flag cleared
\* (what get_status reports as not recording) and no entry in
\* recording_threads while one of its worker threads is alive.
C29_StuckWorkerTracked ==
    \A c \in ChannelIds :
        (StopIdle /\ ~IsRec(c) /\ c \notin DOMAIN recording_threads)
        => LiveWorkers(c) = {}

\* a call that returns and leaves every dict, flag and thread as it was
StartIsNoOp(channel_ids) ==
    /\ ENABLED start_recording(channel_ids)
    /\ ~ENABLED <<start_recording(channel_ids)>>_vars

StopIsNoOp(channel_ids) ==
    /\ ENABLED stop_recording(channel_ids)
    /\ ~ENABLED <<stop_recording(channel_ids)>>_vars

\* C32: start_recording and stop_recording with a channel id that is not in
\* the configuration return and change nothing: no worker, no flag; and
\* start_recording for a channel whose recording flag is set creates no
\* second worker and changes nothing.
C32_NoOpCalls ==
    StopIdle =>
       /\ UnknownId \notin DOMAIN is_recording \cup DOMAIN recording_threads
       /\ StartIsNoOp({UnknownId})
       /\ StopIsNoOp({UnknownId})
       /\ \A c \in DOMAIN channels : IsRec(c) => StartIsNoOp({c})

\* the channel records, its worker runs, and a control call can be made
C32_Witness ==
    /\ StopIdle
    /\ IsRec("c1")
    /\ \E i \in Slots : pc[<<"c1", i>>] = "streaming"
    /\ ENABLED start_recording({"c1"})
    /\ ENABLED start_recording({UnknownId})
    /\ ENABLED stop_recording({UnknownId})

\* the segment of the call that returns could not be processed: the file
\* was missing, under 1 KB, or could not be decoded
ProcessingFailed == seg_file.condition # "good"

\* C33: a loop iteration in which the processing of the captured segment
\* fails does not reset the failure counter of the channel and does not
\* update its last success.
C33_ResetOnlyOnSuccess ==
    [][SegReturn /\ ProcessingFailed =>
          UNCHANGED <<channel_failures, channel_last_success>>]_vars

(***************************************************************************)
(* Properties of the segment processing.                                   *)
(***************************************************************************)
\* the step is one pass of the for loop over merged_ranges
SpanStep == seg_pc = "spans" /\ span_index' = span_index + 1

\* C23: a range whose extraction fails (ffmpeg returns an error, the clip
\* is empty or small, the call raises) adds 1 to filtered_count and nothing
\* to saved_count, and the for loop goes on: when the call returns every
\* merged range has been handled and counted once.
C23_ExtractionFailureFiltered ==
    /\ [][(SpanStep /\ outcomes'[Len(outcomes')].how = "failed") =>
            /\ filtered_count' = filtered_count + 1
            /\ saved_count' = saved_count
            /\ seg_pc' = "spans"]_vars
    /\ [](seg_pc = "done" =>
            /\ Len(outcomes) = Len(merged_ranges)
            /\ \A k \in 1..Len(outcomes) :
                  outcomes[k].range = merged_ranges[k]
            /\ saved_count + filtered_count = Len(merged_ranges))

\* the extraction of the first range failed, the second range was saved,
\* and the call has returned
C23_Witness ==
    /\ seg_pc = "done"
    /\ Len(outcomes) = 2
    /\ outcomes[1].how = "failed" /\ outcomes[2].how = "saved"
    /\ filtered_count = 1 /\ saved_count = 1

\* runs k and k + 1 of the audio lie in one merged range
InOneRange(audio, k) ==
    \E j \in 1..Len(merged_ranges) :
        /\ merged_ranges[j][1] <= audio[k][1]
        /\ audio[k + 1][2] <= merged_ranges[j][2]

\* C27: two successive loud runs of a segment end up in one range if and
\* only if the silence between them is shorter than silence_gap; runs with
\* at least silence_gap of silence between them are separate ranges.
C27_MergeIffBelowGap ==
    seg_pc = "spans" =>
        \A k \in 1..(Len(seg_file.audio) - 1) :
            InOneRange(seg_file.audio, k)
            <=> seg_file.audio[k + 1][1] - seg_file.audio[k][2] < silence_gap

\* a pass of the for loop that called save_transmission_ffmpeg: the range
\* passed the length filter and the level check
Extracted ==
    /\ span_index' = span_index + 1
    /\ outcomes'[Len(outcomes')].how \in {"saved", "failed"}

\* C34: the captured source file exists at every extraction call of a
\* segment: it is removed only after the last range has been extracted or
\* filtered.
C34_SourceIntact ==
    [][Extracted => source_exists]_vars

(***************************************************************************)
(* Properties of the tuner.                                                *)
(***************************************************************************)
\* C16: the detection settings of every channel of the configuration file
\* satisfy zcr_min < zcr_max and min_transmission_ms < max_transmission_ms,
\* at the start and after every write of apply_auto_adjustments, whatever
\* the analysis found.
C16_ConfigOrdered ==
    \A name \in DOMAIN tuner_config :
        /\ tuner_config[name].vad.zcr_min < tuner_config[name].vad.zcr_max
        /\ tuner_config[name].vad.min_transmission_ms
              < tuner_config[name].vad.max_transmission_ms

\* the adjustment times recorded for a channel
History(h, name) == Get(h, name, <<>>)

\* the step is a call of apply_auto_adjustments, the one tuner_call records
ApplyStep ==
    apply_auto_adjustments(tuner_call'.channel, tuner_call'.force,
                           tuner_call'.window)

\* the three conditions of the claim for a call on window w at this moment
C17_Gate(name, w) ==
    /\ name \in DOMAIN tuner_config
    /\ tuner_config[name].auto_adjust.enabled
    /\ \/ History(adjustment_history, name) = <<>>
       \/ LET last == History(adjustment_history, name)
          IN (clock - last[Len(last)]) * 1800 >=
                tuner_config[name].auto_adjust.adjustment_frequency_hours * 3600
    /\ DOMAIN analyze_channel_performance(
                  w, tuner_config[name].auto_adjust).recommendations # {}

\* C17: a call of apply_auto_adjustments without force writes the
\* configuration only if auto-adjust is enabled for the channel, at least
\* adjustment_frequency_hours have passed since the last recorded adjustment
\* of the channel, and there is a recommendation; if one of the three fails
\* the call returns False and leaves the configuration and the recorded
\* adjustments as they are.  So an adjustment applied without force comes at
\* least adjustment_frequency_hours after the one before it.
C17_ApplicationGate ==
    [][(ApplyStep /\ ~tuner_call'.force) =>
         LET name == tuner_call'.channel
             w == tuner_call'.window
         IN /\ tuner_config' # tuner_config => C17_Gate(name, w)
            /\ ~C17_Gate(name, w) =>
                 /\ tuner_call'.returned = "False"
                 /\ tuner_config' = tuner_config
                 /\ History(adjustment_history', name)
                       = History(adjustment_history, name)
            /\ tuner_call'.returned = "True" =>
                 LET before == History(adjustment_history, name)
                     after == History(adjustment_history', name)
                 IN /\ after = Append(before, clock)
                    /\ before # <<>> =>
                         (after[Len(after)] - before[Len(before)]) * 1800 >=
                            tuner_config[name].auto_adjust
                               .adjustment_frequency_hours * 3600]_vars

\* an adjustment applied without force exactly adjustment_frequency_hours
\* (one hour, two ticks) after the one before it
C17_Witness ==
    /\ tuner_call.returned = "True" /\ ~tuner_call.force
    /\ tuner_config["ch"].auto_adjust.enabled
    /\ Len(History(adjustment_history, "ch")) = 2
    /\ adjustment_history["ch"][2] - adjustment_history["ch"][1] = 2
    /\ adjustment_history["ch"][2] = clock

\* C18: a call whose metrics window holds fewer samples than
\* min_samples_required gets an empty analysis result, returns False (it
\* returns, no error is raised), and leaves the configuration and the
\* recorded adjustments as they are.
C18_InsufficientSamples ==
    [][\A name \in DOMAIN tuner_config :
         LET w == tuner_call'.window
         IN ( /\ ApplyStep /\ tuner_call'.channel = name
              /\ w.recorded + w.not_recorded
                    < tuner_config[name].auto_adjust.min_samples_required )
         => /\ analyze_channel_performance(
                  w, tuner_config[name].auto_adjust).empty
            /\ tuner_call'.returned = "False"
            /\ tuner_config' = tuner_config
            /\ History(adjustment_history', name)
                  = History(adjustment_history, name)]_vars

\* a forced call on a window of three samples, where four are required,
\* has returned False
C18_Witness ==
    /\ tuner_call.channel = "ch" /\ tuner_call.force
    /\ tuner_call.analysed
    /\ tuner_call.window.recorded + tuner_call.window.not_recorded = 3
    /\ tuner_config["ch"].auto_adjust.min_samples_required = 4
    /\ tuner_call.returned = "False"
    /\ tuner_config["ch"].vad = TunerVad

\* the energy-threshold recommendation the claim gives for a window
C19_Rule(w, sensitivity_factor, recommendations) ==
    LET fp_over == /\ w.recorded > 0
                   /\ 100 * w.false_positives > 20 * w.recorded
        missed_over == /\ w.not_recorded > 0
                       /\ 100 * w.potential_missed > 10 * w.not_recorded
    IN IF fp_over
       THEN /\ "energy_threshold" \in DOMAIN recommendations
            /\ recommendations["energy_threshold"] = 8 * w.speech_threshold
            /\ recommendations["energy_threshold_reason"]
                  = "Reducing false positives"
       ELSE IF missed_over
       THEN /\ "energy_threshold" \in DOMAIN recommendations
            /\ recommendations["energy_threshold"]
                  = w.noise_floor * sensitivity_factor
       ELSE "energy_threshold" \notin DOMAIN recommendations

\* C19: the energy-threshold recommendation is 0.8 * speech threshold, with
\* the reason 'Reducing false positives', if the false-positive rate is over
\* 0.20; else noise floor * sensitivity_factor if the potential-missed rate
\* is over 0.10; else there is none.  When both rates are over their limits
\* the false-positive rule applies, and an adjustment writes that value.
C19_EnergyThresholdRule ==
    /\ [](tuner_call.analysed =>
            C19_Rule(tuner_call.window,
                     tuner_config["ch"].auto_adjust.sensitivity_factor,
                     calculate_parameter_recommendations(
                        perform_statistical_analysis(tuner_call.window),
                        tuner_config["ch"].auto_adjust)))
    /\ [][(ApplyStep /\ tuner_call'.returned = "True")
            => LET w == tuner_call'.window
                   recommendations ==
                      analyze_channel_performance(
                         w, tuner_config["ch"].auto_adjust).recommendations
               IN /\ C19_Rule(w, tuner_config["ch"].auto_adjust
                                    .sensitivity_factor, recommendations)
                  /\ tuner_config'["ch"].vad.energy_threshold =
                        IF "energy_threshold" \in DOMAIN recommendations
                        THEN recommendations["energy_threshold"]
                        ELSE tuner_config["ch"].vad.energy_threshold]_vars

\* both rates were over their limits (0.3 and 0.2) and the adjustment wrote
\* 0.8 * speech threshold
C19_Witness ==
    /\ tuner_call.returned = "True"
    /\ tuner_call.window.false_positives = 3
    /\ tuner_call.window.potential_missed = 2
    /\ tuner_config["ch"].vad.energy_threshold
          = 8 * tuner_call.window.speech_threshold

\* C21: an adjustment made on a false-positive rate over 0.15 leaves
\* speech_frames_to_start at or above the value the channel had, and
\* otherwise one made on a potential-missed rate over 0.15 leaves it at or
\* below the value the channel had, whatever that value was.
C21_SpeechFramesDirection ==
    [][(ApplyStep /\ tuner_call'.returned = "True") =>
         LET w == tuner_call'.window
             current == tuner_config["ch"].vad.speech_frames_to_start
             applied == tuner_config'["ch"].vad.speech_frames_to_start
         IN IF w.recorded > 0 /\ 100 * w.false_positives > 15 * w.recorded
            THEN applied >= current
            ELSE (w.not_recorded > 0
                    /\ 100 * w.potential_missed > 15 * w.not_recorded)
                 => applied <= current]_vars

\* x clamped to [0.01, 0.9], in units of 1e-4
C20_Clamp(x) == Max(100, Min(9000, x))

\* C20: every analysis of a window with enough samples recommends a ZCR
\* band: zcr_min and zcr_max are in the recommendations, equal to 0.8 * p5
\* and 1.2 * p95 of the observed ZCR, each clamped to [0.01, 0.9].
C20_ZcrBandAlways ==
    LET w == tuner_call.window
        result == analyze_channel_performance(w, tuner_config["ch"].auto_adjust)
        zcr_range == result.analysis.zcr_range
    IN (tuner_call.analysed /\ ~result.empty) =>
          /\ {"zcr_min", "zcr_max"} \subseteq DOMAIN result.recommendations
          /\ result.recommendations["zcr_min"] = C20_Clamp(8 * zcr_range[1])
          /\ result.recommendations["zcr_max"] = C20_Clamp(12 * zcr_range[2])

(***************************************************************************)
(* Properties of the boundary detector.                                    *)
(***************************************************************************)
FrameProcessed == frames_fed' = frames_fed + 1
Closes == is_in_transmission /\ ~is_in_transmission'
Starts == ~is_in_transmission /\ is_in_transmission'

\* C4: a frame moves the detector from not-in-transmission to ACTIVE if and
\* only if the speech-frame counter (plus one on speech, minus one floored
\* at 0 on non-speech) has reached speech_frames_to_start on that frame; so
\* after non-speech frames followed by speech frames only, there is one
\* transmission, started on the speech_frames_to_start-th speech frame.
C4_StartIffCounterReached ==
    /\ [][FrameProcessed =>
            /\ Starts <=> (/\ ~is_in_transmission
                           /\ speech_frame_count' >= vad.speech_frames_to_start)
            /\ ~Closes =>
                 speech_frame_count' =
                    IF tail_speech' > 0 THEN speech_frame_count + 1
                    ELSE IF speech_frame_count = 0 THEN 0
                    ELSE speech_frame_count - 1]_vars
    /\ [](pattern = "run" =>
            /\ is_in_transmission <=> tail_speech >= vad.speech_frames_to_start
            /\ metrics.transmissions_started =
                 IF tail_speech >= vad.speech_frames_to_start THEN 1 ELSE 0)

\* 6 non-speech frames then 10 speech frames, 7 frames to start: one
\* transmission, which holds the 12 preroll frames and frames 13 to 16
C4_Witness ==
    /\ vad.speech_frames_to_start = 7
    /\ pattern = "run" /\ frames_fed = 16 /\ tail_speech = 10
    /\ is_in_transmission
    /\ metrics.transmissions_started = 1
    /\ Len(current_transmission.frames) = 16

\* C5: once ACTIVE, the first hang_time_frames - 1 non-speech frames in a
\* row leave the transmission ACTIVE and are appended to the accumulator,
\* and the hang_time_frames-th closes it.
C5_HangTime ==
    /\ [](is_in_transmission =>
            /\ silence_frame_count = tail_silence
            /\ tail_silence < hang_time_frames)
    /\ [][(FrameProcessed /\ is_in_transmission /\ tail_silence' > 0) =>
            IF tail_silence' < hang_time_frames
            THEN /\ is_in_transmission'
                 /\ current_transmission'.frames =
                      Append(current_transmission.frames, frames_fed')
            ELSE /\ tail_silence' = hang_time_frames
                 /\ ~is_in_transmission']_vars
    /\ [][Closes => tail_silence' = hang_time_frames]_vars

\* hang time of 400 ms, 20 frames: still ACTIVE after 19 non-speech frames
C5_Witness ==
    /\ hang_time_frames = 20
    /\ is_in_transmission
    /\ tail_silence = 19

\* C6: a closed transmission is emitted as complete if and only if
\* min_transmission_ms <= duration <= max_transmission_ms, both inclusive,
\* and discarded otherwise; either way the counters and the accumulator are
\* reset and the detector is IDLE.
C6_ClosureOutcome ==
    [][Closes =>
         LET audio == Append(current_transmission.frames, frames_fed')
             ms == Len(audio) * frame_duration_ms
             inRange == /\ vad.min_transmission_ms <= ms
                        /\ ms <= vad.max_transmission_ms
         IN /\ inRange =>
                 /\ returned' = Transmission(audio)
                 /\ metrics'.transmissions_completed =
                      metrics.transmissions_completed + 1
                 /\ metrics'.transmissions_discarded =
                      metrics.transmissions_discarded
            /\ ~inRange =>
                 /\ returned' = NoTransmission
                 /\ metrics'.transmissions_discarded =
                      metrics.transmissions_discarded + 1
                 /\ metrics'.transmissions_completed =
                      metrics.transmissions_completed
            /\ speech_frame_count' = 0
            /\ silence_frame_count' = 0
            /\ current_transmission' = NoTransmission]_vars

\* a transmission of exactly min_transmission_ms was returned
C6_Witness ==
    /\ ~returned.none
    /\ Len(returned.frames) * frame_duration_ms = vad.min_transmission_ms
    /\ ~is_in_transmission
    /\ speech_frame_count = 0 /\ silence_frame_count = 0

Increasing(fs) == \A i \in 1..(Len(fs) - 1) : fs[i] < fs[i + 1]

\* C7: the accumulator of a confirmed transmission is the preroll buffer of
\* that moment, oldest first, then the confirming frame, then every later
\* frame in arrival order; no frame is in it twice.
C7_PrerollSeed ==
    /\ [][Starts => current_transmission'.frames =
                        Append(preroll_buffer, frames_fed')]_vars
    /\ [][(FrameProcessed /\ is_in_transmission /\ is_in_transmission') =>
            current_transmission'.frames =
                Append(current_transmission.frames, frames_fed')]_vars
    /\ [](is_in_transmission => Increasing(current_transmission.frames))

\* a transmission confirmed on a full preroll buffer of 12 frames, one
\* frame later
C7_Witness ==
    /\ is_in_transmission
    /\ vad.preroll_ms = 250
    /\ Len(current_transmission.frames) = 14
    /\ current_transmission.frames[13] = frames_fed - 1

\* the most recent Min(k, n) of the frames 1..k, oldest first
LastFrames(k, n) == [i \in 1..Min(k, n) |-> k - Min(k, n) + i]

\* C8: after every call of process_frame the preroll buffer holds the most
\* recent min(k, N) frames fed, N = int(preroll_ms / frame_duration_ms).
C8_PrerollWindow ==
    preroll_buffer =
        LastFrames(frames_fed, IntDiv(vad.preroll_ms, frame_duration_ms))


\* C30: after any number of frames the energy and the ZCR history hold the
\* samples of the last 1000 frames at most, both the same number, and the
\* duration history holds the last 100 durations at most.
C30_MetricsBounded ==
    /\ Len(metrics.energy_values) <= samples_cap
    /\ Len(metrics.zcr_values) = Len(metrics.energy_values)
    /\ metrics.energy_values
          = LastFrames(frames_fed, samples_cap)
    /\ metrics.zcr_values = metrics.energy_values
    /\ Len(metrics.transmission_durations) <= durations_cap
    /\ Len(metrics.transmission_durations)
          = Min(durations_cap, metrics.transmissions_completed)

\* over 1000 frames were processed and over 100 transmissions completed:
\* both histories are at their cap
C30_Witness ==
    /\ frames_fed > samples_cap
    /\ Len(metrics.energy_values) = samples_cap
    /\ metrics.energy_values[1] = frames_fed - samples_cap + 1
    /\ metrics.transmissions_completed > durations_cap
    /\ Len(metrics.transmission_durations) = durations_cap


\* what a non-speech frame does to the counters and to an open transmission
TreatedAsNonSpeech ==
    IF is_in_transmission /\ ShouldEnd(silence_frame_count + 1)
    THEN /\ ~is_in_transmission'
         /\ silence_frame_count' = 0
         /\ speech_frame_count' = 0
    ELSE /\ silence_frame_count' = silence_frame_count + 1
         /\ speech_frame_count' = Decay(speech_frame_count)
         /\ is_in_transmission' = is_in_transmission

\* C24: a frame whose feature computation fails is handled as a non-speech
\* frame: the silence counter goes up by one, the speech counter decays,
\* and an open transmission whose hang time is over is closed; the call
\* returns, and a frame can be processed after it.
C24_FailureIsNonSpeech ==
    [][\A frame \in MalformedFrames :
          FaultFrame(frame) =>
             /\ TreatedAsNonSpeech
             /\ returned' = NoTransmission \/ ~is_in_transmission']_vars


\* the parameters the running detector classifies with are the ones in the
\* configuration file (an energy threshold of the file is in units of 1e-7
\* and one of the detector in 1e-6, a ZCR bound in 1e-4 and in 1e-2)
LiveMatchesPersisted ==
    LET persisted == tuner_config["ch"].vad
    IN /\ vad.energy_threshold * 10 = persisted.energy_threshold
       /\ vad.zcr_min * 100 = persisted.zcr_min
       /\ vad.zcr_max * 100 = persisted.zcr_max
       /\ vad.speech_frames_to_start = persisted.speech_frames_to_start
       /\ vad.min_transmission_ms = persisted.min_transmission_ms

\* C28: once apply_auto_adjustments has applied a recommendation, the
\* running detector of the channel classifies with the new values, the
\* same values the configuration file holds.
C28_ClosedLoop ==
    tuner_call.returned = "True" => LiveMatchesPersisted


\* C22: the thresholds a simple_vad call has read all belong to one
\* parameter set the detector was given, the one before a call of
\* update_vad_parameters or the one after it: no frame is classified on a
\* mix of the two.
C22_NoPartialConfig ==
    \E set \in snapshots : \A k \in 1..Len(vad_read) : vad_read[k] = set[k]

(***************************************************************************)
(* Properties of the detector's counters.                                  *)
(***************************************************************************)
\* whether simple_vad called the frame of the call speech
WasSpeech == tail_speech' > 0

AccumulatedMs(transmission) == Len(transmission.frames) * frame_duration_ms

\* C35: a frame closes an open transmission if and only if it is a
\* non-speech frame with which the silence counter reaches hang_time_frames.
\* The maximum length closes nothing: a transmission at or over
\* max_transmission_ms takes every further frame into its accumulator, and
\* is discarded when the hang-time silence closes it.
C35_OnlyHangTimeCloses ==
    [][FrameProcessed /\ is_in_transmission =>
         /\ Closes <=> /\ ~WasSpeech
                       /\ silence_frame_count + 1 >= hang_time_frames
         /\ ~Closes =>
               current_transmission'.frames =
                  Append(current_transmission.frames, frames_fed')
         /\ (Closes /\ AccumulatedMs(current_transmission)
                         >= vad.max_transmission_ms) =>
               /\ returned' = NoTransmission
               /\ metrics'.transmissions_discarded =
                     metrics.transmissions_discarded + 1]_vars

\* a transmission that speech carried two frames and more past the maximum
\* length was closed by the hang-time silence, and discarded as too long
C35_Witness ==
    /\ ~is_in_transmission
    /\ tail_silence = hang_time_frames
    /\ metrics.transmissions_started = 1
    /\ metrics.transmissions_discarded = 1
    /\ metrics.false_positives = 0
    /\ (frames_fed - 2 * hang_time_frames - 2) * frame_duration_ms
          > vad.max_transmission_ms

\* outside a transmission the speech counter is below the start count
BelowStart ==
    ~is_in_transmission => speech_frame_count < vad.speech_frames_to_start

\* C36: after every process_frame call the accumulator exists exactly when
\* the detector is in a transmission, and outside a transmission the speech
\* counter is below speech_frames_to_start; that relation holds from
\* construction on and is only ever lost in a call of update_vad_parameters
\* that lowers speech_frames_to_start.
C36_CounterBelowStart ==
    /\ [](current_transmission # NoTransmission <=> is_in_transmission)
    /\ [](frames_fed = 0 => BelowStart)
    /\ [][(BelowStart /\ ~BelowStart') =>
            /\ \E new_params \in NewParams : UpdateCall(new_params)
            /\ vad'.speech_frames_to_start < vad.speech_frames_to_start]_vars

\* three speech frames under a start count of 7, then the start count is
\* lowered to 3: the counter is at the start count outside a transmission
C36_Witness ==
    /\ ~is_in_transmission
    /\ frames_fed = 3
    /\ speech_frame_count = 3
    /\ vad.speech_frames_to_start = 3

\* C37: as long as neither reset_metrics nor reset_state is called, the
\* transmissions started are the completed ones, the discarded ones and the
\* one in progress if there is one, and no more false positives are counted
\* than transmissions discarded.
C37_OutcomeAccounting ==
    /\ metrics.transmissions_started =
          metrics.transmissions_completed + metrics.transmissions_discarded
          + (IF is_in_transmission THEN 1 ELSE 0)
    /\ metrics.false_positives <= metrics.transmissions_discarded

\* one transmission was completed, one discarded as too short, one as too
\* long, and a fourth is in progress
C37_Witness ==
    /\ is_in_transmission
    /\ metrics.transmissions_completed = 1
    /\ metrics.false_positives = 1
    /\ metrics.transmissions_discarded = 2
    /\ metrics.transmissions_started = 4

(***************************************************************************)
(* Properties of the metrics collector.                                    *)
(***************************************************************************)
\* the recommendations have neither the energy threshold that reduces false
\* positives nor the start count 8
NoFalsePositiveMeasures(recommendations) ==
    /\ "energy_threshold_reason" \in DOMAIN recommendations =>
          recommendations["energy_threshold_reason"]
             # "Reducing false positives"
    /\ "speech_frames_to_start" \in DOMAIN recommendations =>
          recommendations["speech_frames_to_start"] # 8

\* C38: every speech probability collect_metrics stores is at least 0.4;
\* so on the rows of the collector the false-positive rate is 0, and the
\* tuner recommends neither the energy threshold that reduces false
\* positives nor a speech_frames_to_start of 8.
C38_NoFalsePositives ==
    LET auto_adjust_config == tuner_config["ch"].auto_adjust
        Emitted(w) ==
            analyze_channel_performance(w, auto_adjust_config)
    IN /\ \A row \in DOMAIN channel_metrics : row.speech_probability >= 12
       /\ Emitted(CollectedWindow(channel_metrics))
             .analysis.false_positive_rate.k = 0
       /\ NoFalsePositiveMeasures(
             Emitted(CollectedWindow(channel_metrics)).recommendations)
       /\ tuner_call.analysed =>
             /\ Emitted(tuner_call.window).analysis.false_positive_rate.k = 0
             /\ NoFalsePositiveMeasures(
                   Emitted(tuner_call.window).recommendations)
       /\ tuner_config["ch"].vad.speech_frames_to_start # 8

\* the tuner analysed a table of four recorded chunks of the lowest
\* probability, energy, ZCR and centroid all outside their ranges
C38_Witness ==
    /\ tuner_call.analysed
    /\ tuner_call.window.recorded = 4
    /\ DOMAIN channel_metrics =
          {[was_recorded |-> TRUE, speech_probability |-> 12]}

\* the parameters update_vad_parameters can be given
Named ==
    { "energy_threshold", "zcr_min", "zcr_max", "speech_frames_to_start",
      "hang_time_ms" }

\* C40: a call of update_vad_parameters sets the parameters its argument
\* names, of the five it knows, and no other; the counters, the accumulator,
\* the in-transmission flag, the preroll buffer and the transmission limits
\* stay as they are; and after construction and after every call
\* hang_time_frames is int(hang_time_ms / frame_duration_ms).
C40_UpdateFrame ==
    /\ [](hang_time_frames = vad.hang_time_ms \div frame_duration_ms)
    /\ [][~FrameProcessed =>
            /\ \E new_params \in NewParams :
                  \A param \in DOMAIN vad :
                     vad'[param] =
                        IF param \in DOMAIN new_params \cap Named
                        THEN new_params[param] ELSE vad[param]
            /\ UNCHANGED <<speech_frame_count, silence_frame_count,
                           current_transmission, is_in_transmission,
                           preroll_buffer>>]_vars

\* a detector built with a hang time of 400 ms, in a transmission and one
\* non-speech frame into its hang time, after calls that set the start count
\* to 3 and the hang time to 50 ms, two frames and a half
C40_Witness ==
    /\ vad.hang_time_ms = 50
    /\ vad.min_transmission_ms = 700
    /\ vad.speech_frames_to_start = 3
    /\ hang_time_frames = 2
    /\ is_in_transmission
    /\ silence_frame_count = 1
    /\ preroll_buffer # <<>>

====
